---- MODULE Spec2Model ----
(***************************************************************************)
(* A model of the MCP extension library's protocol core:                   *)
(*   - the WebSocket bridge server (packages/wss-bridge/src/server.ts,     *)
(*     auth/index.ts): sessions, authentication, rate limiting, proxying;  *)
(*   - the WebSocket client transport (class WebSocketTransport);          *)
(*   - the router (createRouter, chrome/config/storage.ts);                *)
(*   - the runtime port transport (class RuntimePortTransport).            *)
(* Each component has its own specification over the shared variables; a   *)
(* component that a specification does not exercise stays in its initial   *)
(* state.                                                                  *)
(***************************************************************************)
EXTENDS Integers, Sequences, FiniteSets, TLC

VARIABLES
    \* ---- bridge server ----
    sessions,       \* session id -> Session object (server.ts:111-119) and its socket
    now,            \* Date.now(), a non-decreasing clock
    mcpConnected,   \* McpClientManager.connected
    inflight,       \* session id -> sequence of the requests awaiting the upstream client
    lastHandled,    \* what the last run of a bridge handler did (observation)
    server,         \* the WebSocketBridgeServer: its listeners, its sweep timer, stop()
    \* ---- WebSocket client transport ----
    transport,      \* the WebSocketTransport instance, its sockets and its timers
    lastEvent,      \* the last call or event of the transport (observation)
    \* ---- router ----
    router,         \* the Router made by createRouter, if any
    lastCall,       \* the last call of createRouter or of a Router method (observation)
    \* ---- runtime port transport ----
    portTransport,  \* the RuntimePortTransport of the service worker
    runtime,        \* the ports of chrome.runtime: port id -> both ends of the port
    lastPort        \* the last run of a port listener or of disconnect() (observation)

bridgeVars == <<sessions, now, mcpConnected, inflight, lastHandled, server>>

wsVars == <<transport, lastEvent>>

routerVars == <<router, lastCall>>

portVars == <<portTransport, runtime, lastPort>>

vars == <<sessions, now, mcpConnected, inflight, lastHandled, server, transport,
          lastEvent, router, lastCall, portTransport, runtime, lastPort>>

(***************************************************************************)
(* Bridge server                                                           *)
(***************************************************************************)

\* Bounds of the bridge model.
MaxTime == 3
\* config.rateLimit.windowMs and config.rateLimit.maxRequests, scaled down.
WindowMs == 1
MaxRequests == 2
MaxInflight == 1
\* config.session.timeoutMs, scaled down.
TimeoutMs == 2

SessionIds == {"s1"}
RequestIds == {"r1", "r2"}
NoId == "none"

\* config.apiKeys: never empty (validateConfig) and never holding an empty
\* string (parseArrayEnv filters them out).
apiKeys == {"key-valid"}

\* What a client may put in the apiKey field of an auth message: a configured
\* key, another string, the empty string, nothing at all, a non-string value.
ApiKeyInputs == {"key-valid", "key-bad", "", "undefined", "nonstring"}

Falsy(apiKey) == apiKey \in {"", "undefined"}
IsString(apiKey) == apiKey \notin {"undefined", "nonstring"}

\* Inbound payloads, by the fields the handler looks at.
\*   json:    "malformed" (JSON.parse throws), "primitive" (valid JSON that is
\*            not an object: null, a number, a string), "object"
\*   type:    the value of the type field ("absent" when there is none)
\*   jsonrpc: the object has a jsonrpc field
\*   method:  the value of the method field ("absent" when there is none)
\*   name:    params.name is present
Msg(json, type, apiKey, jsonrpc, method, name, id) ==
    [json |-> json, type |-> type, apiKey |-> apiKey, jsonrpc |-> jsonrpc,
     method |-> method, name |-> name, id |-> id]

Payloads ==
    {Msg("malformed", "absent", "undefined", FALSE, "absent", FALSE, NoId),
     Msg("primitive", "absent", "undefined", FALSE, "absent", FALSE, NoId),
     Msg("object", "ping", "undefined", FALSE, "absent", FALSE, NoId)}
    \cup {Msg("object", "auth", k, FALSE, "absent", FALSE, NoId) : k \in ApiKeyInputs}
    \cup {Msg("object", "absent", "undefined", TRUE, "tools/call", TRUE, i) :
            i \in RequestIds \cup {NoId}}
    \cup {Msg("object", "absent", "undefined", TRUE, "tools/call", FALSE, i) :
            i \in RequestIds}
    \cup {Msg("object", "absent", "undefined", TRUE, "tools/list", FALSE, i) :
            i \in RequestIds}
    \cup {Msg("object", "absent", "undefined", FALSE, "absent", FALSE, i) :
            i \in RequestIds \cup {NoId}}

\* Outgoing messages.
Reply(kind, code, text, id, sessionId) ==
    [kind |-> kind, code |-> code, text |-> text, id |-> id, sessionId |-> sessionId]

Pong == Reply("pong", 0, "", NoId, "")
AuthSuccess(sid) == Reply("auth_success", 0, "Authentication successful", NoId, sid)
AuthError(text) == Reply("auth_error", 0, text, NoId, "")
ErrorReply(code, text, id) == Reply("error", code, text, id, "")
ResultReply(id) == Reply("result", 0, "", id, "")

NoSession ==
    [id |-> "", created |-> FALSE, inTable |-> FALSE, readyState |-> "CLOSED",
     closeCode |-> 0, authenticated |-> FALSE, lastActivityAt |-> 0,
     requestCount |-> 0, rateLimitResetAt |-> 0]

\* config.allowedOrigins, as the configurations differ: the default wildcard,
\* one origin, or both.
AllowLists == {{"*"}, {"https://a.example"}, {"*", "https://a.example"}}

\* info.origin of an upgrade request: no Origin header, an empty one, or an
\* origin.
Origins == {"undefined", "", "https://a.example", "https://b.example"}

\* validateOrigin accepting every request when the wildcard is configured.
validateOrigin_wildcardFirst(allowedOrigins, origin) ==
    IF "*" \in allowedOrigins THEN TRUE
    ELSE IF origin \in {"undefined", ""} THEN FALSE
    ELSE origin \in allowedOrigins

\* AuthManager.validateOrigin
validateOrigin(allowedOrigins, origin) ==
    IF origin \in {"undefined", ""} THEN FALSE
    ELSE IF "*" \in allowedOrigins THEN TRUE
    ELSE origin \in allowedOrigins

\* The WebSocketBridgeServer after start(): the sweep timer is armed and the
\* WebSocket server takes the upgrade requests of the HTTP server.
\*   phase: "running", or the step stop() has reached;
\*   log: the steps stop() has performed, in the order it performed them;
\*   closedOnStop: the sessions whose socket stop() called close(1000) on.
StartedServer(allowedOrigins) ==
    [allowedOrigins |-> allowedOrigins,
     cleanupInterval |-> TRUE,
     wss |-> "listening",
     httpServer |-> "listening",
     phase |-> "running",
     log |-> <<>>,
     closedOnStop |-> {}]

validateApiKey_anyString(apiKey) ==
    IF Falsy(apiKey) \/ ~IsString(apiKey) THEN FALSE ELSE TRUE

\* AuthManager.validateApiKey
validateApiKey(apiKey) ==
    IF Falsy(apiKey) \/ ~IsString(apiKey) THEN FALSE ELSE apiKey \in apiKeys

\* checkRateLimit with a window that never restarts.
checkRateLimit_noReset(session, t) ==
    LET s2 == [session EXCEPT !.requestCount = session.requestCount + 1]
    IN  [session |-> s2, ok |-> ~(s2.requestCount > MaxRequests)]

\* checkRateLimit with the window also restarting at the very instant it ends.
checkRateLimit_resetAtEnd(session, t) ==
    LET expired == t >= session.rateLimitResetAt
        s1 == IF expired
              THEN [session EXCEPT !.requestCount = 0,
                                   !.rateLimitResetAt = t + WindowMs]
              ELSE session
        s2 == [s1 EXCEPT !.requestCount = s1.requestCount + 1]
    IN  [session |-> s2, ok |-> ~(s2.requestCount > MaxRequests)]

\* isSessionExpired with a session expiring as soon as it reaches the timeout.
isSessionExpired_atThreshold(session, t) ==
    LET idleTime == t - session.lastActivityAt
    IN  idleTime >= TimeoutMs

\* AuthManager.isSessionExpired
isSessionExpired(session, t) ==
    LET idleTime == t - session.lastActivityAt
    IN  idleTime > TimeoutMs

\* AuthManager.checkRateLimit: the session after the call, and the verdict.
checkRateLimit(session, t) ==
    LET expired == t > session.rateLimitResetAt
        s1 == IF expired
              THEN [session EXCEPT !.requestCount = 0,
                                   !.rateLimitResetAt = t + WindowMs]
              ELSE session
        s2 == [s1 EXCEPT !.requestCount = s1.requestCount + 1]
    IN  [session |-> s2, ok |-> ~(s2.requestCount > MaxRequests)]

\* A handler that has no ping branch.
isPingMessage_never(m) == FALSE

\* isPingMessage / isAuthMessage / isBridgeMessage, on a parsed object
isPingMessage(m) == m.type = "ping"
isAuthMessage(m) == m.type = "auth"
isBridgeMessage(m) == m.jsonrpc \/ m.method # "absent"

\* WebSocketBridgeServer.send: the message is written only when the socket is
\* open.
send(session, message) ==
    [issued |-> <<message>>,
     written |-> IF session.readyState = "OPEN" THEN <<message>> ELSE <<>>]

\* A handler run that sends nothing.
Nothing == [issued |-> <<>>, written |-> <<>>]

\* sendError sending nothing.
sendError_silent(session, text, code) == Nothing

\* WebSocketBridgeServer.sendError: no request id is put in the reply.
sendError(session, text, code) == send(session, ErrorReply(code, text, NoId))

\* ws.close(code): starts the closing handshake of an open socket, and does
\* nothing on a socket that is already closing or closed.
wsClose(session, code) ==
    IF session.readyState = "OPEN"
    THEN [session EXCEPT !.readyState = "CLOSING", !.closeCode = code]
    ELSE session

\* What one run of a handler did: the session afterwards, the messages it
\* handed to send(), those of them that were written to the socket, the code
\* of the close() call (0: none), whether
\* handleToolCall ran, what mcpClient.callTool did ("none", "rejected": it threw
\* before calling upstream, "pending": the call went upstream), and whether the
\* handler threw.
Outcome(session, sent, closeCall, toolCall, upstream, threw) ==
    [session |-> session, issued |-> sent.issued, replies |-> sent.written,
     closeCall |-> closeCall,
     toolCall |-> toolCall, upstream |-> upstream, threw |-> threw]

\* handleAuth withdrawing the authentication when the key is rejected.
handleAuth_resetOnFailure(session, m) ==
    IF validateApiKey(m.apiKey)
    THEN LET s1 == [session EXCEPT !.authenticated = TRUE]
         IN  Outcome(s1, send(s1, AuthSuccess(s1.id)), 0, FALSE, "none", FALSE)
    ELSE Outcome([wsClose(session, 1008) EXCEPT !.authenticated = FALSE],
                 send(session, AuthError("Invalid API key")),
                 1008, FALSE, "none", FALSE)

\* WebSocketBridgeServer.handleAuth
handleAuth(session, m) ==
    IF validateApiKey(m.apiKey)
    THEN LET s1 == [session EXCEPT !.authenticated = TRUE]
         IN  Outcome(s1, send(s1, AuthSuccess(s1.id)), 0, FALSE, "none", FALSE)
    ELSE Outcome(wsClose(session, 1008), send(session, AuthError("Invalid API key")),
                 1008, FALSE, "none", FALSE)

\* McpClientManager.callTool up to its upstream call: the reason it throws, or
\* "" when the call goes upstream.
callToolRejects(m) ==
    IF ~mcpConnected THEN "MCP client not connected"
    ELSE IF m.method # "tools/call" THEN "Unsupported method"
    ELSE IF ~m.name THEN "Missing tool name in parameters"
    ELSE ""

\* handleToolCall answering a failed call without the id of the request.
handleToolCall_noId(session, m) ==
    IF callToolRejects(m) # ""
    THEN Outcome(session, sendError(session, callToolRejects(m), -32603),
                 0, TRUE, "rejected", FALSE)
    ELSE Outcome(session, Nothing, 0, TRUE, "pending", FALSE)

\* WebSocketBridgeServer.handleToolCall up to the point where it waits for the
\* upstream client.
handleToolCall(session, m) ==
    IF callToolRejects(m) # ""
    THEN Outcome(session, send(session, ErrorReply(-32603, callToolRejects(m), m.id)),
                 0, TRUE, "rejected", FALSE)
    ELSE Outcome(session, Nothing, 0, TRUE, "pending", FALSE)

\* The authentication gate of handleMessage: every message that is neither a
\* ping nor an auth message needs an authenticated session.
notAuthenticated_never(session) == FALSE

notAuthenticated(session) == ~session.authenticated

\* WebSocketBridgeServer.handleMessage, at time t.
handleMessage(session, m, t) ==
    LET s1 == [session EXCEPT !.lastActivityAt = t] IN
    IF m.json = "malformed"
    THEN Outcome(s1, sendError(s1, "Invalid JSON message", 400), 0, FALSE, "none", FALSE)
    ELSE IF m.json = "primitive"
    \* 'type' in message throws a TypeError for a value that is not an object
    THEN Outcome(s1, Nothing, 0, FALSE, "none", TRUE)
    ELSE IF isPingMessage(m)
    THEN Outcome(s1, send(s1, Pong), 0, FALSE, "none", FALSE)
    ELSE IF isAuthMessage(m)
    THEN handleAuth(s1, m)
    ELSE IF notAuthenticated(s1)
    THEN Outcome(wsClose(s1, 1008),
                 send(s1, AuthError("Not authenticated. Send auth message first.")),
                 1008, FALSE, "none", FALSE)
    ELSE LET rl == checkRateLimit(s1, t) IN
         IF ~rl.ok
         THEN Outcome(rl.session, sendError(rl.session, "Rate limit exceeded", 429),
                      0, FALSE, "none", FALSE)
         ELSE IF isBridgeMessage(m)
         THEN handleToolCall(rl.session, m)
         ELSE Outcome(rl.session, sendError(rl.session, "Unknown message type", 400),
                      0, FALSE, "none", FALSE)

NoMsg == Msg("malformed", "absent", "undefined", FALSE, "absent", FALSE, NoId)

\* The observation of a handler run: the operation, the session it ran on, the
\* payload, the time, the session before and what the run did.
\* origin: the Origin header of the upgrade request, for a connection.
Handled(op, sid, m, t, before, out) ==
    [op |-> op, sid |-> sid, msg |-> m, at |-> t, before |-> before, out |-> out,
     origin |-> "undefined"]

\* The bridge after start(), with one of the given allow-lists configured.
BridgeStarted(allowLists) ==
    /\ sessions = [s \in SessionIds |-> NoSession]
    /\ now = 0
    /\ mcpConnected \in BOOLEAN
    /\ inflight = [s \in SessionIds |-> <<>>]
    /\ lastHandled = Handled("none", "", NoMsg, 0, NoSession,
                             Outcome(NoSession, Nothing, 0, FALSE, "none", FALSE))
    /\ server \in {StartedServer(a) : a \in allowLists}

\* The default configuration: ALLOWED_ORIGINS is the wildcard.
BridgeInit == BridgeStarted({{"*"}})

\* The idle bridge of the specifications that do not exercise it.
BridgeIdle == BridgeInit /\ mcpConnected = TRUE

\* An upgrade request with the Origin header `origin` reaches the WebSocket
\* server: verifyClient asks validateOrigin, and handleConnection gives a
\* connection that passed a fresh session. A rejected request gets no
\* 'connection' event.
HandleConnection(s, origin) ==
    /\ server.wss = "listening"
    /\ ~sessions[s].created
    /\ LET accepted == validateOrigin(server.allowedOrigins, origin) IN
        /\ sessions' = IF accepted
                THEN [sessions EXCEPT ![s] =
                        [id |-> s, created |-> TRUE, inTable |-> TRUE, readyState |-> "OPEN",
                         closeCode |-> 0, authenticated |-> FALSE, lastActivityAt |-> now,
                         requestCount |-> 0, rateLimitResetAt |-> now + WindowMs]]
                ELSE sessions
        /\ lastHandled' = [Handled(IF accepted THEN "connection" ELSE "rejected",
                                   s, NoMsg, now, sessions[s],
                                   Outcome(sessions'[s], Nothing, 0, FALSE, "none", FALSE))
                                EXCEPT !.origin = origin]
    /\ UNCHANGED <<now, mcpConnected, inflight, server, wsVars, routerVars, portVars>>

\* The 'message' listener of a session's socket. The socket library delivers
\* the frames it receives until the 'close' event, also after close() has been
\* called on the socket.
HandleMessage(s, m) ==
    /\ sessions[s].created
    /\ sessions[s].readyState # "CLOSED"
    /\ sessions[s].requestCount <= MaxRequests + 1
    /\ LET out == handleMessage(sessions[s], m, now) IN
       /\ out.upstream = "pending" => Len(inflight[s]) < MaxInflight
       /\ sessions' = [sessions EXCEPT ![s] = out.session]
       /\ inflight' = IF out.upstream = "pending"
                      THEN [inflight EXCEPT ![s] = Append(@, m)]
                      ELSE inflight
       /\ lastHandled' = Handled("message", s, m, now, sessions[s], out)
    /\ UNCHANGED <<now, mcpConnected, server, wsVars, routerVars, portVars>>

\* The upstream client settles a tool call (McpClientManager.callTool returns a
\* result or an error envelope tagged with the request id) and handleToolCall
\* relays it. Calls settle in any order.
ToolCallReturns(s, k, ok) ==
    /\ k \in 1..Len(inflight[s])
    /\ LET m == inflight[s][k]
           reply == IF ok THEN ResultReply(m.id)
                    ELSE ErrorReply(-32603, "Tool execution failed", m.id)
       IN  lastHandled' = Handled("return", s, m, now, sessions[s],
                Outcome(sessions[s], send(sessions[s], reply), 0, TRUE, "none", FALSE))
    /\ inflight' = [inflight EXCEPT ![s] =
            SubSeq(@, 1, k - 1) \o SubSeq(@, k + 1, Len(@))]
    /\ UNCHANGED <<sessions, now, mcpConnected, server, wsVars, routerVars, portVars>>

\* The socket's 'close' event (the peer went away, or the closing handshake
\* ended): the session leaves the table.
SocketClosed(s) ==
    /\ sessions[s].created
    /\ sessions[s].readyState # "CLOSED"
    /\ sessions' = [sessions EXCEPT ![s].readyState = "CLOSED", ![s].inTable = FALSE]
    /\ lastHandled' = Handled("close", s, NoMsg, now, sessions[s],
                              Outcome(sessions'[s], Nothing, 0, FALSE, "none", FALSE))
    /\ UNCHANGED <<now, mcpConnected, inflight, server, wsVars, routerVars, portVars>>

\* WebSocketBridgeServer.cleanupExpiredSessions for one session of the table.
cleanupSession(session, t) ==
    IF session.inTable /\ isSessionExpired(session, t)
    THEN [wsClose(session, 1000) EXCEPT !.inTable = FALSE]
    ELSE session

\* The sweep timer fires: cleanupExpiredSessions goes through the table.
CleanupExpiredSessions ==
    /\ server.cleanupInterval
    /\ sessions' = [s \in SessionIds |-> cleanupSession(sessions[s], now)]
    /\ lastHandled' = Handled("sweep", "", NoMsg, now, NoSession,
                              Outcome(NoSession, Nothing, 0, FALSE, "none", FALSE))
    /\ UNCHANGED <<now, mcpConnected, inflight, server, wsVars, routerVars, portVars>>

\* stop() ending the session table without closing the WebSocket server.
stop_keepListening(srv, sess) ==
    [server |-> [srv EXCEPT !.cleanupInterval = FALSE,
                            !.closedOnStop = {s \in SessionIds : sess[s].inTable},
                            !.phase = "wss.close",
                            !.log = <<"clearInterval", "ws.close", "sessions.clear",
                                      "wss.close">>],
     sessions |-> [s \in SessionIds |->
                    IF sess[s].inTable
                    THEN [wsClose(sess[s], 1000) EXCEPT !.inTable = FALSE]
                    ELSE sess[s]]]

\* WebSocketBridgeServer.stop up to its first await: the sweep timer is
\* cleared, close(1000) is called on the socket of every session of the table,
\* the table is cleared and close() of the WebSocket server is called, which
\* takes its upgrade listener off the HTTP server at once.
stop(srv, sess) ==
    [server |-> [srv EXCEPT !.cleanupInterval = FALSE,
                            !.closedOnStop = {s \in SessionIds : sess[s].inTable},
                            !.wss = "closed",
                            !.phase = "wss.close",
                            !.log = <<"clearInterval", "ws.close", "sessions.clear",
                                      "wss.close">>],
     sessions |-> [s \in SessionIds |->
                    IF sess[s].inTable
                    THEN [wsClose(sess[s], 1000) EXCEPT !.inTable = FALSE]
                    ELSE sess[s]]]

\* stop() is called on the running server.
Stop ==
    /\ server.phase = "running"
    /\ LET res == stop(server, sessions) IN
        /\ server' = res.server
        /\ sessions' = res.sessions
    /\ lastHandled' = Handled("stop", "", NoMsg, now, NoSession,
                              Outcome(NoSession, Nothing, 0, FALSE, "none", FALSE))
    /\ UNCHANGED <<now, mcpConnected, inflight, wsVars, routerVars, portVars>>

\* The callback of wss.close runs: stop() goes on to close the HTTP server,
\* which stops listening.
WssClosed ==
    /\ server.phase = "wss.close"
    /\ server' = [server EXCEPT !.httpServer = "closed",
                                !.phase = "httpServer.close",
                                !.log = Append(@, "httpServer.close")]
    /\ UNCHANGED <<sessions, now, mcpConnected, inflight, lastHandled, wsVars, routerVars, portVars>>

\* The callback of httpServer.close runs, once every connection has ended:
\* stop() goes on to mcpClient.disconnect().
HttpClosed ==
    /\ server.phase = "httpServer.close"
    /\ \A s \in SessionIds : sessions[s].created => sessions[s].readyState = "CLOSED"
    /\ server' = [server EXCEPT !.phase = "mcpClient.disconnect",
                                !.log = Append(@, "mcpClient.disconnect")]
    /\ UNCHANGED <<sessions, now, mcpConnected, inflight, lastHandled, wsVars, routerVars, portVars>>

\* McpClientManager.disconnect settles; closed: client.close() did not throw.
\* stop() returns.
Disconnected(closed) ==
    /\ server.phase = "mcpClient.disconnect"
    /\ mcpConnected' = IF mcpConnected /\ closed THEN FALSE ELSE mcpConnected
    /\ server' = [server EXCEPT !.phase = "stopped"]
    /\ UNCHANGED <<sessions, now, inflight, lastHandled, wsVars, routerVars, portVars>>

Tick ==
    /\ now < MaxTime
    /\ now' = now + 1
    /\ UNCHANGED <<sessions, mcpConnected, inflight, lastHandled, server, wsVars, routerVars, portVars>>

BridgeNext ==
    \/ \E s \in SessionIds, o \in Origins : HandleConnection(s, o)
    \/ \E s \in SessionIds, m \in Payloads : HandleMessage(s, m)
    \/ \E s \in SessionIds, k \in 1..MaxInflight, ok \in BOOLEAN : ToolCallReturns(s, k, ok)
    \/ \E s \in SessionIds : SocketClosed(s)
    \/ CleanupExpiredSessions
    \/ Tick


\* The life of the server: connections, the sweep and stop().
LifecycleInit == BridgeStarted(AllowLists)

LifecycleNext ==
    \/ \E s \in SessionIds, o \in Origins : HandleConnection(s, o)
    \/ \E s \in SessionIds : SocketClosed(s)
    \/ CleanupExpiredSessions
    \/ Stop
    \/ WssClosed
    \/ HttpClosed
    \/ \E closed \in BOOLEAN : Disconnected(closed)
    \/ Tick

(***************************************************************************)
(* WebSocket client transport                                              *)
(***************************************************************************)

\* Bounds of the transport model: the sockets one run may create, and
\* config.maxReconnectAttempts (5 when not configured), scaled down.
MaxSockets == 2
MaxReconnectAttempts == 1
\* The sockets one run of the authentication model may create.
MaxAuthSockets == 3

SocketIds == 1..(IF MaxAuthSockets > MaxSockets THEN MaxAuthSockets ELSE MaxSockets)
\* The ids generateId hands out; an id is never handed out twice.
ClientRequestIds == {"q1", "q2"}

InitialReconnectDelay == 1000
MaxReconnectDelay == 30000

Min(a, b) == IF a < b THEN a ELSE b

\* A WebSocket object: its readyState ("NONE": not created yet), whether the
\* connection was ever established (the open event was fired), the auth
\* listeners attached to it (each named by the socket whose connect() promise it
\* settles), the promise connect() returned for it and whether reconnect()
\* made the call (its promise then has the catch handler of reconnect()).
NoSocket ==
    [readyState |-> "NONE", established |-> FALSE, authHandlers |-> {},
     promise |-> "none", caught |-> FALSE, reason |-> <<>>]

\* The instance after construction. apiKey: an API key is configured;
\* urlValid: new WebSocket(serverUrl) does not throw.
NewTransport(apiKey, reconnect, urlValid) ==
    [apiKey |-> apiKey,
     urlValid |-> urlValid,
     reconnectEnabled |-> reconnect,
     maxReconnectAttempts |-> MaxReconnectAttempts,
     reconnectAttempts |-> 0,
     reconnectDelay |-> InitialReconnectDelay,
     state |-> "disconnected",
     pendingRequests |-> {},
     heartbeatInterval |-> FALSE,
     authenticated |-> FALSE,
     ws |-> 0,
     \* the environment of the instance; socketLimit: the sockets it may create
     socketLimit |-> MaxSockets,
     sockets |-> [k \in SocketIds |-> NoSocket],
     created |-> 0,
     reconnectTimers |-> 0,
     settled |-> [i \in ClientRequestIds |-> "unsent"],
     \* observations
     scheduledDelay |-> 0,
     attemptsSinceConnected |-> 0,
     scheduledSinceConnected |-> 0]

\* WebSocketTransport.updateState
updateState(c, newState) == [c EXCEPT !.state = newState]

\* WebSocketTransport.handleError
handleError(c) == updateState(c, "error")

\* WebSocketTransport.stopHeartbeat / startHeartbeat
stopHeartbeat(c) == [c EXCEPT !.heartbeatInterval = FALSE]
startHeartbeat(c) == [stopHeartbeat(c) EXCEPT !.heartbeatInterval = TRUE]

\* The transport has reached the connected state.
Connected(c) ==
    [startHeartbeat(updateState([c EXCEPT !.authenticated = TRUE], "connected"))
        EXCEPT !.attemptsSinceConnected = 0,
               !.scheduledSinceConnected = 0]

\* connect() returns at once in these states.
connectIsNoop_connectedOnly(c) == c.state = "connected"

connectIsNoop(c) == c.state = "connected" \/ c.state = "connecting"

\* The rejection of the promise of a connect() call made by reconnect(): its
\* catch handler calls handleError.
RejectConnect(c, caught) == IF caught THEN handleError(c) ELSE c

\* WebSocketTransport.connect; caught: the call is the one of reconnect().
connect(c, caught) ==
    IF connectIsNoop(c) THEN c
    ELSE LET c1 == updateState(c, "connecting") IN
         IF ~c1.urlValid
         THEN RejectConnect(handleError(c1), caught)
         ELSE LET k == c1.created + 1 IN
              [c1 EXCEPT !.created = k,
                         !.ws = k,
                         !.sockets[k] = [readyState |-> "CONNECTING",
                                         established |-> FALSE,
                                         authHandlers |-> {},
                                         promise |-> "pending",
                                         caught |-> caught,
                                         reason |-> <<>>]]

\* The step of the reconnect delay: doubled, up to the ceiling.
nextDelay(delay) == Min(delay * 2, MaxReconnectDelay)

\* WebSocketTransport.reconnect: counts the attempt and arms the timer.
reconnect(c) ==
    [c EXCEPT !.reconnectAttempts = @ + 1,
              !.reconnectTimers = @ + 1,
              !.scheduledDelay = c.reconnectDelay,
              !.scheduledSinceConnected = @ + 1]

\* A close handling that fails the outstanding requests.
handleClose_rejectPending(c) ==
    LET c1 == [stopHeartbeat(c) EXCEPT
                    !.authenticated = FALSE,
                    !.settled = [i \in ClientRequestIds |->
                                    IF i \in c.pendingRequests
                                    THEN "rejected: Connection closed" ELSE c.settled[i]],
                    !.pendingRequests = {}]
    IN  IF c1.reconnectEnabled /\ c1.reconnectAttempts < c1.maxReconnectAttempts
        THEN reconnect(updateState(c1, "reconnecting"))
        ELSE updateState(c1, "disconnected")

\* WebSocketTransport.handleClose
handleClose(c) ==
    LET c1 == [stopHeartbeat(c) EXCEPT !.authenticated = FALSE] IN
    IF c1.reconnectEnabled /\ c1.reconnectAttempts < c1.maxReconnectAttempts
    THEN reconnect(updateState(c1, "reconnecting"))
    ELSE updateState(c1, "disconnected")

\* The callback of the reconnect timer: connect(), then the backoff step.
reconnectTimerFires(c) ==
    LET c1 == connect([c EXCEPT !.reconnectTimers = @ - 1,
                                !.attemptsSinceConnected = @ + 1], TRUE)
    IN  [c1 EXCEPT !.reconnectDelay = nextDelay(c1.reconnectDelay)]

\* WebSocketTransport.authenticate, run by onopen of socket k: the listener is
\* attached to this.ws and the auth message is sent on this.ws.
authenticate(c, k) ==
    IF c.ws = 0 THEN c
    ELSE [c EXCEPT !.sockets[c.ws].authHandlers = @ \cup {k}]

\* onopen of socket k.
onopen(c, k) ==
    LET c1 == [c EXCEPT !.sockets[k].readyState = "OPEN",
                        !.sockets[k].established = TRUE,
                        !.reconnectAttempts = 0,
                        !.reconnectDelay = InitialReconnectDelay]
    IN  IF c1.apiKey
        THEN authenticate(c1, k)
        ELSE [Connected(c1) EXCEPT !.sockets[k].promise = "resolved"]

\* Settling the promise of the connect() call that made socket k.
Resolve(c, k) ==
    IF c.sockets[k].promise = "pending"
    THEN [c EXCEPT !.sockets[k].promise = "resolved"] ELSE c
Reject(c, k, reason) ==
    IF c.sockets[k].promise = "pending"
    THEN RejectConnect([c EXCEPT !.sockets[k].promise = "rejected",
                                 !.sockets[k].reason = reason],
                       c.sockets[k].caught)
    ELSE c

\* this.ws?.removeEventListener('message', authHandler), for the listener owner.
removeAuthHandler(c, owner) ==
    IF c.ws = 0 THEN c
    ELSE [c EXCEPT !.sockets[c.ws].authHandlers = @ \ {owner}]

\* message.error?.message of a message of the bridge: only its error
\* envelopes have an error field; auth_error carries its text in the top-level
\* message field.
errorMessage(message) ==
    IF message.kind = "error" THEN message.text ELSE "undefined"

\* The auth listener of `owner` receives a message of the bridge.
authHandler(c, owner, message) ==
    IF message.kind = "auth_success"
    THEN Resolve(removeAuthHandler(Connected(c), owner), owner)
    ELSE IF message.kind = "auth_error"
    THEN Reject(removeAuthHandler(c, owner), owner,
                <<"Authentication failed: ", errorMessage(message)>>)
    ELSE c

RECURSIVE RunAuthHandlers(_, _, _)
RunAuthHandlers(c, owners, message) ==
    IF owners = {} THEN c
    ELSE LET o == CHOOSE x \in owners : \A y \in owners : x <= y
         IN  RunAuthHandlers(authHandler(c, o, message), owners \ {o}, message)

\* A matching that settles the first pending request, whatever the id of the
\* response.
handleResponse_anyPending(c, id, isError) ==
    IF c.pendingRequests # {}
    THEN LET first == CHOOSE i \in c.pendingRequests : TRUE
         IN  [c EXCEPT !.pendingRequests = @ \ {first},
                       !.settled[first] = IF isError THEN "rejected: error" ELSE "resolved"]
    ELSE c

\* WebSocketTransport.handleMessage for a message that is not a pong and
\* carries id `id` (NoId: the message has no id, which matches nothing).
handleResponse(c, id, isError) ==
    IF id \in c.pendingRequests
    THEN [c EXCEPT !.pendingRequests = @ \ {id},
                   !.settled[id] = IF isError THEN "rejected: error" ELSE "resolved"]
    ELSE c

\* WebSocketTransport.handleMessage: a pong is dropped before the table is
\* looked at.
clientHandleMessage(c, type, id, isError) ==
    IF type = "pong" THEN c ELSE handleResponse(c, id, isError)

\* The ids an inbound message may carry: those of the requests, or none.
ResponseIds == ClientRequestIds \cup {NoId}

\* The ids of the requests the bridge sends to the extension.
BridgeRequestIds == {"b1"}

\* WebSocketTransport.handleMessage for a tools/call request with id `id`
\* coming from the bridge: the transport holds no router, the message is not a
\* pong and its id is not one of the pending requests, so nothing is done with
\* it. routed: Router.handle was called; sent: what was written to the socket.
handleRequest(c, id) ==
    [transport |-> handleResponse(c, id, FALSE), routed |-> FALSE, sent |-> <<>>]

\* disconnect() without the rejection of the pending requests.
disconnect_keepPending(c) ==
    LET c1 == [stopHeartbeat(c) EXCEPT !.reconnectEnabled = FALSE]
        c2 == IF c1.ws # 0
              THEN [c1 EXCEPT !.sockets[c1.ws].readyState =
                                IF @ \in {"CONNECTING", "OPEN"} THEN "CLOSING" ELSE @,
                              !.ws = 0]
              ELSE c1
    IN  updateState([c2 EXCEPT !.authenticated = FALSE], "disconnected")

\* WebSocketTransport.disconnect
disconnect(c) ==
    LET c1 == [stopHeartbeat(c) EXCEPT !.reconnectEnabled = FALSE]
        c2 == IF c1.ws # 0
              THEN [c1 EXCEPT !.sockets[c1.ws].readyState =
                                IF @ \in {"CONNECTING", "OPEN"} THEN "CLOSING" ELSE @,
                              !.ws = 0]
              ELSE c1
        c3 == [c2 EXCEPT !.settled = [i \in ClientRequestIds |->
                                IF i \in c2.pendingRequests
                                THEN "rejected: Connection closed" ELSE c2.settled[i]],
                         !.pendingRequests = {}]
    IN  updateState([c3 EXCEPT !.authenticated = FALSE], "disconnected")

\* The guard of sendMessage.
canSend(c) ==
    /\ c.authenticated
    /\ c.ws # 0
    /\ c.sockets[c.ws].readyState = "OPEN"

\* WebSocketTransport.sendMessage with the fresh id `id`.
sendMessage(c, id) ==
    IF ~canSend(c) THEN c
    ELSE [c EXCEPT !.pendingRequests = @ \cup {id},
                   !.settled[id] = "pending"]

\* A timer that rejects without looking at the table.
requestTimeout_unguarded(c, id) ==
    [c EXCEPT !.pendingRequests = @ \ {id}, !.settled[id] = "rejected: Request timeout"]

\* The 30-second timer of request `id` (armed by sendMessage, never cleared).
requestTimeout(c, id) ==
    IF id \in c.pendingRequests
    THEN [c EXCEPT !.pendingRequests = @ \ {id}, !.settled[id] = "rejected: Request timeout"]
    ELSE c

\* The observation of a call of the caller: the call, and the state, the
\* number of sockets and the pending requests it found.
Event(op, arg, c) ==
    [op |-> op, stateBefore |-> c.state, createdBefore |-> c.created,
     pendingBefore |-> c.pendingRequests, routed |-> FALSE, sent |-> <<>>]

\* The observation of an event of the environment.
\*   routed: the event handed a message to Router.handle;
\*   sent: the messages the event wrote to the socket.
EnvEvent ==
    [op |-> "event", stateBefore |-> "", createdBefore |-> 0, pendingBefore |-> {},
     routed |-> FALSE, sent |-> <<>>]

WsInit ==
    /\ transport \in {NewTransport(a, r, u) : a \in BOOLEAN, r \in BOOLEAN, u \in BOOLEAN}
    /\ lastEvent = EnvEvent

\* The idle transport of the specifications that do not exercise it.
WsIdle ==
    /\ transport = NewTransport(FALSE, TRUE, TRUE)
    /\ lastEvent = EnvEvent

\* A caller calls connect().
Connect ==
    /\ connectIsNoop(transport) \/ transport.created < transport.socketLimit
    /\ transport' = connect(transport, FALSE)
    /\ lastEvent' = Event("connect", 0, transport)
    /\ UNCHANGED <<bridgeVars, routerVars, portVars>>

\* A caller calls disconnect().
Disconnect ==
    /\ transport' = disconnect(transport)
    /\ lastEvent' = Event("disconnect", 0, transport)
    /\ UNCHANGED <<bridgeVars, routerVars, portVars>>

\* A caller calls sendMessage(); generateId gives an id not used before.
SendMessage(id) ==
    /\ transport.settled[id] = "unsent"
    /\ canSend(transport)
    /\ transport' = sendMessage(transport, id)
    /\ lastEvent' = EnvEvent
    /\ UNCHANGED <<bridgeVars, routerVars, portVars>>

\* sendMessage() on a transport that is not connected throws.
SendMessageThrows ==
    /\ ~canSend(transport)
    /\ transport' = transport
    /\ lastEvent' = EnvEvent
    /\ UNCHANGED <<bridgeVars, routerVars, portVars>>

\* Socket k opens.
SocketOpens(k) ==
    /\ transport.sockets[k].readyState = "CONNECTING"
    /\ transport' = onopen(transport, k)
    /\ lastEvent' = EnvEvent
    /\ UNCHANGED <<bridgeVars, routerVars, portVars>>

\* Socket k is closed: by the server, by the network, or at the end of the
\* closing handshake. failed: the connection failed, and the error event is
\* fired before the close event (in the same task). A socket that never
\* opened can only fail, also when close() was called on it while it was
\* connecting.
SocketCloses(k, failed) ==
    /\ transport.sockets[k].readyState \in {"CONNECTING", "OPEN", "CLOSING"}
    /\ ~transport.sockets[k].established => failed
    /\ LET c1 == [transport EXCEPT !.sockets[k].readyState = "CLOSED"]
           c2 == IF failed THEN Reject(handleError(c1), k, <<"WebSocket error">>) ELSE c1
       IN  transport' = handleClose(c2)
    /\ lastEvent' = [EnvEvent EXCEPT !.op = "close"]
    /\ UNCHANGED <<bridgeVars, routerVars, portVars>>

\* The reconnect timer fires.
ReconnectTimerFires ==
    /\ transport.reconnectTimers > 0
    /\ connectIsNoop(transport) \/ ~transport.urlValid
            \/ transport.created < transport.socketLimit
    /\ transport' = reconnectTimerFires(transport)
    /\ lastEvent' = EnvEvent
    /\ UNCHANGED <<bridgeVars, routerVars, portVars>>

\* What handleAuth of the bridge answers to the auth message.
BridgeAuthReply(type) ==
    IF type = "auth_success" THEN AuthSuccess("s1") ELSE AuthError("Invalid API key")

\* The bridge answers the auth message on socket k (or sends such a message
\* unasked): the message goes to handleMessage, which drops it, and to the auth
\* listeners of the socket.
AuthReply(k, type) ==
    /\ transport.sockets[k].readyState = "OPEN"
    /\ transport' = RunAuthHandlers(transport, transport.sockets[k].authHandlers,
                                    BridgeAuthReply(type))
    /\ lastEvent' = EnvEvent
    /\ UNCHANGED <<bridgeVars, routerVars, portVars>>

\* A message with an id arrives on socket k.
Response(k, id, isError) ==
    /\ transport.sockets[k].readyState = "OPEN"
    /\ transport' = clientHandleMessage(transport, "absent", id, isError)
    /\ lastEvent' = EnvEvent
    /\ UNCHANGED <<bridgeVars, routerVars, portVars>>

\* A pong arrives on socket k (the bridge puts no id in it; one that carried
\* an id would be dropped all the same).
PongArrives(k, id) ==
    /\ transport.sockets[k].readyState = "OPEN"
    /\ transport' = clientHandleMessage(transport, "pong", id, FALSE)
    /\ lastEvent' = EnvEvent
    /\ UNCHANGED <<bridgeVars, routerVars, portVars>>

\* A tools/call request of the bridge arrives on socket k.
Request(k, id) ==
    /\ transport.sockets[k].readyState = "OPEN"
    /\ LET res == handleRequest(transport, id) IN
        /\ transport' = res.transport
        /\ lastEvent' = [EnvEvent EXCEPT !.op = "request", !.routed = res.routed,
                                         !.sent = res.sent]
    /\ UNCHANGED <<bridgeVars, routerVars, portVars>>

\* The timeout of request id fires. The timer of a request that is no longer
\* pending finds nothing to do.
RequestTimeout(id) ==
    /\ transport.settled[id] # "unsent"
    /\ transport' = requestTimeout(transport, id)
    /\ lastEvent' = EnvEvent
    /\ UNCHANGED <<bridgeVars, routerVars, portVars>>

WsNext ==
    \/ Connect
    \/ Disconnect
    \/ \E id \in ClientRequestIds : SendMessage(id)
    \/ SendMessageThrows
    \/ \E k \in SocketIds : SocketOpens(k)
    \/ \E k \in SocketIds, failed \in BOOLEAN : SocketCloses(k, failed)
    \/ ReconnectTimerFires
    \/ \E k \in SocketIds, type \in {"auth_success", "auth_error"} : AuthReply(k, type)
    \/ \E k \in SocketIds, id \in ResponseIds, e \in BOOLEAN : Response(k, id, e)
    \/ \E k \in SocketIds, id \in ResponseIds : PongArrives(k, id)
    \/ \E id \in ClientRequestIds : RequestTimeout(id)
    \/ \E k \in SocketIds, id \in BridgeRequestIds : Request(k, id)


\* The authentication of the sockets of a transport that has an API key and
\* does not reconnect by itself: the caller connects and disconnects, sockets
\* open and close, the bridge answers.
WsAuthInit ==
    /\ transport = [NewTransport(TRUE, FALSE, TRUE) EXCEPT !.socketLimit = MaxAuthSockets]
    /\ lastEvent = EnvEvent

WsAuthNext ==
    \/ Connect
    \/ Disconnect
    \/ \E k \in SocketIds : SocketOpens(k)
    \/ \E k \in SocketIds, failed \in BOOLEAN : SocketCloses(k, failed)
    \/ \E k \in SocketIds, type \in {"auth_success", "auth_error"} : AuthReply(k, type)

(***************************************************************************)
(* Router (createRouter)                                                   *)
(***************************************************************************)

\* The longest toolDefs array handed to createRouter.
MaxDefs == 2

\* Names with an entry of their own in some handlers object.
OwnNames == {"get_tabs", "click"}

\* Names every plain object inherits from Object.prototype: handlers[name]
\* yields the inherited function for them.
InheritedNames == {"toString"}

\* `${name}` and handlers[name] for a request without a name.
UndefinedName == "undefined"

\* The names a tool definition carries.
DefNames == OwnNames \cup InheritedNames

\* The names a caller asks for.
CallNames == OwnNames \cup InheritedNames \cup {"missing_tool", UndefinedName}

\* What a handler does when it is called: resolve a ToolResult, resolve a
\* ToolResult with isError, or throw an Error.
HandlerBehaviours == {"ok", "err", "throws"}

\* The handlers objects: plain objects whose own entries are functions.
HandlerMaps == UNION {[d -> HandlerBehaviours] : d \in SUBSET OwnNames}

RECURSIVE SeqsUpTo(_, _)
SeqsUpTo(S, n) ==
    IF n = 0 THEN {<<>>}
    ELSE LET shorter == SeqsUpTo(S, n - 1) IN
         shorter \cup {Append(q, x) : q \in {r \in shorter : Len(r) = n - 1}, x \in S}

\* The toolDefs arrays, each definition given by its name.
ToolDefLists == SeqsUpTo(DefNames, MaxDefs)

ContextKeys == {"tabId"}

Absent == "absent"

\* A context object: key -> its value, or Absent for a key it does not have.
\* A context argument that is not passed has no keys.
BaseContexts == [ContextKeys -> {Absent, "B"}]

\* The per-call context: a key may also be present with the value undefined.
OverrideContexts == [ContextKeys -> {Absent, "O", "undefined"}]

NoContext == [k \in ContextKeys |-> Absent]

\* A merge in which the keys of the base context win.
mergedContext_baseWins(base, override) ==
    [k \in ContextKeys |-> IF base[k] # Absent THEN base[k] ELSE override[k]]

\* { ...defaultContext, ...context }
mergedContext(base, override) ==
    [k \in ContextKeys |-> IF override[k] # Absent THEN override[k] ELSE base[k]]

\* handlers[name]: the own entry, else the inherited property, else undefined.
lookup(handlers, name) ==
    IF name \in DOMAIN handlers THEN handlers[name]
    ELSE IF name \in InheritedNames THEN "inherited"
    ELSE "undefined"

\* A value a Router method returns or throws.
\*   kind: "error" ({error: McpError}), "tools" (ToolsListResponse), "result"
\*   (ToolResult / ToolsCallResponse), "raw" (what an inherited function
\*   returned), or the class of a thrown value.
RouterValue(kind, code, message, tools, content, isError, toolName, cause) ==
    [kind |-> kind, code |-> code, message |-> message, tools |-> tools,
     content |-> content, isError |-> isError, toolName |-> toolName, cause |-> cause]

Undefined == <<"undefined">>

NoValue == RouterValue("undefined", 0, Undefined, <<>>, Undefined, "undefined", "undefined", Undefined)

\* new Error(message) / a TypeError of the engine
Error(class, message) ==
    RouterValue(class, 0, message, <<>>, Undefined, "undefined", "undefined", Undefined)

\* new ToolExecutionError(message, toolName, cause)
ToolExecutionError(message, toolName, cause) ==
    RouterValue("ToolExecutionError", 0, message, <<>>, Undefined, "undefined", toolName, cause)

IsErrorInstance(v) == v.kind \in {"Error", "TypeError", "ToolExecutionError"}

\* normalizeError wrapped as { error: ... }; a thrown string has kind "string".
normalizeError(error) ==
    IF IsErrorInstance(error) \/ error.kind = "string"
    THEN RouterValue("error", -1, error.message, <<>>, Undefined, "undefined", "undefined", Undefined)
    ELSE RouterValue("error", -1, <<"Unknown error occurred">>, <<>>, Undefined, "undefined", "undefined", Undefined)

StringError(message) ==
    RouterValue("string", 0, message, <<>>, Undefined, "undefined", "undefined", Undefined)

ToolResult(content, isError) ==
    RouterValue("result", 0, Undefined, <<>>, content, isError, "undefined", Undefined)

ToolsListResponse(toolDefs) ==
    RouterValue("tools", 0, Undefined, toolDefs, Undefined, "undefined", "undefined", Undefined)

\* The call handler(params, mergedContext) of a looked-up handler h.
\* The inherited Object.prototype.toString returns a string: it has neither
\* content nor isError.
invoke(h) ==
    CASE h = "ok"        -> [threw |-> FALSE, value |-> ToolResult(<<"text">>, "false")]
      [] h = "err"       -> [threw |-> FALSE, value |-> ToolResult(<<"failed">>, "true")]
      [] h = "throws"    -> [threw |-> TRUE,  value |-> Error("Error", <<"boom">>)]
      [] h = "inherited" -> [threw |-> FALSE,
                             value |-> RouterValue("raw", 0, Undefined, <<>>, Undefined,
                                                   "undefined", "undefined", Undefined)]

\* What a call did: how it completed, with what value, which handler it
\* invoked (name, or "" for none) and the context that handler was given.
Completion(completion, value, invoked, observed) ==
    [completion |-> completion, value |-> value, invoked |-> invoked, observed |-> observed]

NoRouter == [constructed |-> FALSE, toolDefs |-> <<>>, handlers |-> <<>>, context |-> NoContext]

\* createRouter: the validation of the configuration.
missingHandler(toolDefs, handlers) ==
    \E i \in 1..Len(toolDefs) : lookup(handlers, toolDefs[i]) = "undefined"

createRouter(toolDefs, handlers, context) ==
    IF missingHandler(toolDefs, handlers)
    THEN [router |-> NoRouter,
          out |-> Completion("threw", Error("Error", <<"Missing handler for tool: ">>), "", NoContext)]
    ELSE [router |-> [constructed |-> TRUE, toolDefs |-> toolDefs,
                      handlers |-> handlers, context |-> context],
          out |-> Completion("returned", NoValue, "", NoContext)]

\* callTool letting the failure of the handler through as it is.
callTool_raw(r, name, context) ==
    LET handler == lookup(r.handlers, name)
        merged == mergedContext(r.context, context)
    IN  IF handler = "undefined"
        THEN Completion("rejected",
                        ToolExecutionError(<<"Tool not found: ", name>>, name, Undefined),
                        "", NoContext)
        ELSE LET res == invoke(handler) IN
             IF res.threw
             THEN Completion("rejected", res.value, name, merged)
             ELSE Completion("resolved", res.value, name, merged)

\* Router.callTool
callTool(r, name, context) ==
    LET handler == lookup(r.handlers, name)
        merged == mergedContext(r.context, context)
    IN  IF handler = "undefined"
        THEN Completion("rejected",
                        ToolExecutionError(<<"Tool not found: ", name>>, name, Undefined),
                        "", NoContext)
        ELSE LET res == invoke(handler) IN
             IF res.threw
             THEN Completion("rejected",
                             ToolExecutionError(<<"Error executing tool ", name, ": ">> \o res.value.message,
                                                name, res.value.message),
                             name, merged)
             ELSE Completion("resolved", res.value, name, merged)

\* handleToolsList
handleToolsList(r) == ToolsListResponse(r.toolDefs)

\* handleToolsCall: its result, or what it throws.
\*   request.params undefined or null: the destructuring throws a TypeError.
handleToolsCall(r, request, context) ==
    IF request.params # "object"
    THEN [threw |-> TRUE, value |-> Error("TypeError", <<"Cannot destructure property 'name'">>),
          invoked |-> "", observed |-> NoContext]
    ELSE LET name == request.name
             handler == lookup(r.handlers, name)
             merged == mergedContext(r.context, context)
         IN  IF handler = "undefined"
             THEN [threw |-> TRUE,
                   value |-> ToolExecutionError(<<"Tool not found: ", name>>, name, Undefined),
                   invoked |-> "", observed |-> NoContext]
             ELSE LET res == invoke(handler) IN
                  IF res.threw
                  THEN [threw |-> FALSE,
                        value |-> ToolResult(<<"Error executing tool ", name, ": ">> \o res.value.message,
                                             "true"),
                        invoked |-> name, observed |-> merged]
                  ELSE [threw |-> FALSE,
                        value |-> ToolResult(res.value.content, res.value.isError),
                        invoked |-> name, observed |-> merged]

\* A message handed to Router.handle.
\*   json: "null" (null or undefined), "primitive" (a number, a string, a
\*         boolean) or "object";
\*   method: "undefined" when the object has none;
\*   params: "object" or "undefined"; name: params.name (UndefinedName if none).
RouterMessage(json, method, params, name) ==
    [json |-> json, method |-> method, params |-> params, name |-> name]

RouterMessages ==
    {RouterMessage("null", "undefined", "undefined", UndefinedName),
     RouterMessage("primitive", "undefined", "undefined", UndefinedName),
     RouterMessage("object", "undefined", "undefined", UndefinedName),
     RouterMessage("object", "tools/list", "undefined", UndefinedName),
     RouterMessage("object", "resources/list", "undefined", UndefinedName),
     RouterMessage("object", "tools/call", "undefined", UndefinedName)}
    \cup {RouterMessage("object", "tools/call", "object", n) : n \in CallNames}

\* Router.handle
\*   msg.method of null or undefined throws before the try block is entered:
\*   the promise of the async function rejects.
handle(r, message, context) ==
    IF message.json = "null"
    THEN Completion("rejected", Error("TypeError", <<"Cannot read properties of null">>),
                    "", NoContext)
    ELSE IF message.method = "undefined"
    THEN Completion("resolved", normalizeError(StringError(<<"Missing method in request">>)),
                    "", NoContext)
    ELSE IF message.method = "tools/list"
    THEN Completion("resolved", handleToolsList(r), "", NoContext)
    ELSE IF message.method = "tools/call"
    THEN LET res == handleToolsCall(r, message, context) IN
         IF res.threw
         THEN Completion("resolved", normalizeError(res.value), res.invoked, res.observed)
         ELSE Completion("resolved", res.value, res.invoked, res.observed)
    ELSE Completion("resolved",
                    normalizeError(StringError(<<"Unknown method: ", message.method>>)),
                    "", NoContext)

NoRouterMessage == RouterMessage("none", "undefined", "undefined", UndefinedName)

\* The observation of a call.
Call(op, toolDefs, handlers, name, message, context, out) ==
    [op |-> op, toolDefs |-> toolDefs, handlers |-> handlers, name |-> name,
     message |-> message, context |-> context, out |-> out]

NoCall == Call("none", <<>>, <<>>, "", NoRouterMessage, NoContext,
               Completion("none", NoValue, "", NoContext))

RouterInit ==
    /\ router = NoRouter
    /\ lastCall = NoCall

\* The router of a specification that does not exercise it.
RouterIdle == RouterInit

\* createRouter({toolDefs, handlers, context})
CreateRouter(toolDefs, handlers, context) ==
    /\ ~router.constructed
    /\ LET res == createRouter(toolDefs, handlers, context) IN
        /\ router' = res.router
        /\ lastCall' = Call("createRouter", toolDefs, handlers, "", NoRouterMessage,
                            context, res.out)
    /\ UNCHANGED <<bridgeVars, wsVars, portVars>>

\* router.callTool(name, params, context)
CallTool(name, context) ==
    /\ router.constructed
    /\ lastCall' = Call("callTool", <<>>, <<>>, name, NoRouterMessage, context,
                        callTool(router, name, context))
    /\ UNCHANGED <<router, bridgeVars, wsVars, portVars>>

\* router.handle(message, context)
Handle(message, context) ==
    /\ router.constructed
    /\ lastCall' = Call("handle", <<>>, <<>>, "", message, context,
                        handle(router, message, context))
    /\ UNCHANGED <<router, bridgeVars, wsVars, portVars>>

RouterNext ==
    \/ \E d \in ToolDefLists, h \in HandlerMaps, c \in BaseContexts : CreateRouter(d, h, c)
    \/ \E n \in CallNames, c \in OverrideContexts : CallTool(n, c)
    \/ \E m \in RouterMessages, c \in OverrideContexts : Handle(m, c)

(***************************************************************************)
(* Runtime port transport (class RuntimePortTransport)                     *)
(***************************************************************************)

\* The ports opened towards the service worker.
MaxPorts == 2

\* The calls of listen().
MaxListen == 1

\* The requests a caller posts on one port.
MaxPortRequests == 1

\* The messages delivered over one port, in both directions together.
MaxCrossed == 4

PortIds == 1..MaxPorts

\* config.portName || 'mcp-extension'
PortName == "mcp-extension"

\* The names a connecting peer gives its port.
PortNames == {PortName, "other-channel"}

\* The two ends of a port: the service worker and the page that connected.
Sides == {"worker", "page"}

OtherSide(side) == IF side = "worker" THEN "page" ELSE "worker"

\* config.router of both transports: a router with one tool.
PortRouter == createRouter(<<"get_tabs">>, [n \in {"get_tabs"} |-> "ok"], NoContext).router

\* What is posted on a port: message is what Router.handle reads of it on
\* arrival, value is the reply it carries (NoValue for a request).
RequestPayload(m) == [message |-> m, value |-> NoValue]

\* A reply is an object without a method.
ReplyPayload(v) ==
    [message |-> RouterMessage("object", "undefined", "undefined", UndefinedName),
     value |-> v]

\* The requests a caller posts.
PortRequests ==
    {RequestPayload(RouterMessage("object", "tools/list", "undefined", UndefinedName)),
     RequestPayload(RouterMessage("null", "undefined", "undefined", UndefinedName))}

\* { error: { code: -1, message: err.message } }
ErrorPayload(err) ==
    RouterValue("error", -1, err.message, <<>>, Undefined, "undefined", "undefined", Undefined)

\* A port of chrome.runtime.
\*   connected: neither end has disconnected;
\*   offered: onConnect of the service worker was dispatched to an acceptor;
\*   viaTransport: the page obtained it from connect() of its transport;
\*   listeners: the onMessage listeners setupPortListeners attached at each end;
\*   deleters: the onDisconnect listeners handleConnection attached;
\*   queue: the messages on their way to each end;
\*   handling: the messages whose listener awaits Router.handle, at each end;
\*   sent: the requests the caller posted; crossed: the messages delivered.
NoPort ==
    [name |-> "", opened |-> FALSE, connected |-> FALSE, offered |-> FALSE,
     viaTransport |-> FALSE,
     listeners |-> [side \in Sides |-> 0],
     deleters |-> 0,
     queue |-> [side \in Sides |-> <<>>],
     handling |-> [side \in Sides |-> <<>>],
     sent |-> 0, crossed |-> 0]

\* new RuntimePortTransport(config) in the service worker.
\*   acceptors: the onConnect listeners listen() has registered.
NewPortTransport == [portName |-> PortName, acceptors |-> 0, ports |-> {}]

\* The acceptor of listen() taking every port, whatever its name.
accepts_anyName(t, port) == TRUE

\* The acceptor of listen(): port.name === this.portName
accepts(t, port) == port.name = t.portName

\* RuntimePortTransport.setupPortListeners at one end of the port.
setupPortListeners(port, side) == [port EXCEPT !.listeners[side] = @ + 1]

\* RuntimePortTransport.handleConnection
handleConnection(t, rt, p) ==
    [transport |-> [t EXCEPT !.ports = @ \cup {p}],
     runtime |-> [rt EXCEPT ![p] = [setupPortListeners(rt[p], "worker")
                                        EXCEPT !.deleters = @ + 1]]]

\* chrome.runtime.onConnect dispatched to the n acceptors of listen().
RECURSIVE onConnect(_, _, _, _)
onConnect(t, rt, p, n) ==
    IF n = 0 THEN [transport |-> t, runtime |-> rt]
    ELSE LET rest == onConnect(t, rt, p, n - 1) IN
         IF accepts(rest.transport, rest.runtime[p])
         THEN handleConnection(rest.transport, rest.runtime, p)
         ELSE rest

\* What one run of the onMessage listener of setupPortListeners did once
\* Router.handle has settled.
\*   posted: the payloads port.postMessage accepted; onError: the calls of the
\*   error callback; raised: the listener's promise rejected.
\* postMessage on a disconnected port throws.
Listened(handleThrew, posted, onError, raised) ==
    [handleThrew |-> handleThrew, posted |-> posted, onError |-> onError, raised |-> raised]

\* The onMessage listener of setupPortListeners.
listener(port, m) ==
    LET out == handle(PortRouter, m, NoContext) IN
    IF out.completion = "resolved"
    THEN IF port.connected
         THEN Listened(FALSE, <<out.value>>, 0, FALSE)
         \* postMessage throws inside the try block; the catch block calls
         \* onError and its own postMessage throws again
         ELSE Listened(FALSE, <<>>, 1, TRUE)
    ELSE IF port.connected
         THEN Listened(TRUE, <<ErrorPayload(out.value)>>, 1, FALSE)
         ELSE Listened(TRUE, <<>>, 1, TRUE)

\* RuntimePortTransport.disconnect: port.disconnect() on every tracked port
\* (the messages on their way to the worker are dropped), then ports.clear().
portDisconnect(t, rt) ==
    [transport |-> [t EXCEPT !.ports = {}],
     runtime |-> [p \in PortIds |->
                    IF p \in t.ports
                    THEN [rt[p] EXCEPT !.connected = FALSE, !.queue["worker"] = <<>>]
                    ELSE rt[p]]]

NoPayload == RequestPayload(NoRouterMessage)

\* The observation of a run of a listener or of disconnect().
PortEvent(op, p, side, payload, did, tracked) ==
    [op |-> op, port |-> p, side |-> side, payload |-> payload, did |-> did,
     tracked |-> tracked]

NoPortEvent == PortEvent("none", 0, "", NoPayload, Listened(FALSE, <<>>, 0, FALSE), {})

PortInit ==
    /\ portTransport = NewPortTransport
    /\ runtime = [p \in PortIds |-> NoPort]
    /\ lastPort = NoPortEvent

\* The port transport of the specifications that do not exercise it.
PortIdle == PortInit

\* listen() is called in the service worker.
Listen ==
    /\ portTransport.acceptors < MaxListen
    /\ portTransport' = [portTransport EXCEPT !.acceptors = @ + 1]
    /\ lastPort' = NoPortEvent
    /\ UNCHANGED <<runtime, bridgeVars, wsVars, routerVars>>

\* A page opens the next port under a name: with connect() of its transport
\* (viaTransport, which uses the configured name and attaches the listener) or
\* with chrome.runtime.connect itself. The service worker's onConnect runs.
PeerConnects(p, name, viaTransport) ==
    /\ ~runtime[p].opened
    /\ \A q \in PortIds : q < p => runtime[q].opened
    /\ viaTransport => name = PortName
    /\ LET port0 == [NoPort EXCEPT !.name = name, !.opened = TRUE, !.connected = TRUE,
                                   !.viaTransport = viaTransport,
                                   !.offered = portTransport.acceptors > 0]
           port1 == IF viaTransport THEN setupPortListeners(port0, "page") ELSE port0
           res == onConnect(portTransport, [runtime EXCEPT ![p] = port1], p,
                            portTransport.acceptors)
       IN  /\ portTransport' = res.transport
           /\ runtime' = res.runtime
    /\ lastPort' = PortEvent("connect", p, "page", NoPayload,
                             Listened(FALSE, <<>>, 0, FALSE), {})
    /\ UNCHANGED <<bridgeVars, wsVars, routerVars>>

\* The caller on the page posts a request on its port.
PageSends(p, payload) ==
    /\ runtime[p].connected
    /\ runtime[p].sent < MaxPortRequests
    /\ runtime' = [runtime EXCEPT ![p].sent = @ + 1,
                                  ![p].queue["worker"] = Append(@, payload)]
    /\ lastPort' = NoPortEvent
    /\ UNCHANGED <<portTransport, bridgeVars, wsVars, routerVars>>

RECURSIVE Copies(_, _)
Copies(x, n) == IF n = 0 THEN <<>> ELSE Append(Copies(x, n - 1), x)

\* The next message arrives at one end of the port: every listener that
\* setupPortListeners attached there is called and awaits Router.handle.
\* (A page that opened the port itself reads the message in its own code.)
Receives(p, side) ==
    /\ runtime[p].queue[side] # <<>>
    /\ side = "worker" => runtime[p].connected
    /\ runtime[p].crossed < MaxCrossed
    /\ LET payload == Head(runtime[p].queue[side]) IN
        runtime' = [runtime EXCEPT
            ![p].queue[side] = Tail(@),
            ![p].crossed = @ + 1,
            ![p].handling[side] = @ \o Copies(payload, runtime[p].listeners[side])]
    /\ lastPort' = PortEvent("receive", p, side, Head(runtime[p].queue[side]),
                             Listened(FALSE, <<>>, 0, FALSE), {})
    /\ UNCHANGED <<portTransport, bridgeVars, wsVars, routerVars>>

RemoveAt(q, i) == SubSeq(q, 1, i - 1) \o SubSeq(q, i + 1, Len(q))

\* Router.handle settles for message i awaited at one end of the port: the
\* listener goes on and posts its reply.
HandleCompletes(p, side, i) ==
    /\ i \in 1..Len(runtime[p].handling[side])
    /\ LET payload == runtime[p].handling[side][i]
           did == listener(runtime[p], payload.message)
       IN  /\ runtime' = [runtime EXCEPT
                ![p].handling[side] = RemoveAt(@, i),
                ![p].queue[OtherSide(side)] =
                    @ \o [k \in 1..Len(did.posted) |-> ReplyPayload(did.posted[k])]]
           /\ lastPort' = PortEvent("handled", p, side, payload, did, {})
    /\ UNCHANGED <<portTransport, bridgeVars, wsVars, routerVars>>

\* The page disconnects its port, or goes away: the messages it had posted
\* have been delivered, those on their way to it are dropped, and the
\* onDisconnect listeners of the service worker run.
PeerDisconnects(p) ==
    /\ runtime[p].connected
    /\ runtime[p].queue["worker"] = <<>>
    /\ runtime' = [runtime EXCEPT ![p].connected = FALSE,
                                  ![p].queue["page"] = <<>>,
                                  ![p].handling["page"] = <<>>]
    /\ portTransport' = IF runtime[p].deleters > 0
                        THEN [portTransport EXCEPT !.ports = @ \ {p}]
                        ELSE portTransport
    /\ lastPort' = PortEvent("peerDisconnect", p, "page", NoPayload,
                             Listened(FALSE, <<>>, 0, FALSE), portTransport.ports)
    /\ UNCHANGED <<bridgeVars, wsVars, routerVars>>

\* disconnect() is called in the service worker.
PortDisconnect ==
    /\ LET res == portDisconnect(portTransport, runtime) IN
        /\ portTransport' = res.transport
        /\ runtime' = res.runtime
    /\ lastPort' = PortEvent("disconnect", 0, "worker", NoPayload,
                             Listened(FALSE, <<>>, 0, FALSE), portTransport.ports)
    /\ UNCHANGED <<bridgeVars, wsVars, routerVars>>

PortNext ==
    \/ Listen
    \/ \E p \in PortIds, name \in PortNames, via \in BOOLEAN : PeerConnects(p, name, via)
    \/ \E p \in PortIds, payload \in PortRequests : PageSends(p, payload)
    \/ \E p \in PortIds, side \in Sides : Receives(p, side)
    \/ \E p \in PortIds, side \in Sides, i \in 1..(MaxCrossed * MaxListen) :
            HandleCompletes(p, side, i)
    \/ \E p \in PortIds : PeerDisconnects(p)
    \/ PortDisconnect

\* The connections only: ports are accepted and disconnected, no message is
\* posted on them.
PortSetNext ==
    \/ Listen
    \/ \E p \in PortIds, name \in PortNames, via \in BOOLEAN : PeerConnects(p, name, via)
    \/ \E p \in PortIds : PeerDisconnects(p)
    \/ PortDisconnect

(***************************************************************************)
(* Specifications                                                          *)
(***************************************************************************)

\* The bridge server.
Init == BridgeInit /\ WsIdle /\ RouterIdle /\ PortIdle
Next == BridgeNext
Spec == Init /\ [][Next]_vars

\* The bridge server from start() to stop().
InitLifecycle == LifecycleInit /\ WsIdle /\ RouterIdle /\ PortIdle
NextLifecycle == LifecycleNext
SpecLifecycle == InitLifecycle /\ [][NextLifecycle]_vars

\* The WebSocket client transport.
InitWs == BridgeIdle /\ WsInit /\ RouterIdle /\ PortIdle
NextWs == WsNext
SpecWs == InitWs /\ [][NextWs]_vars

\* The WebSocket client transport: the authentication of its sockets.
InitWsAuth == BridgeIdle /\ WsAuthInit /\ RouterIdle /\ PortIdle
NextWsAuth == WsAuthNext
SpecWsAuth == InitWsAuth /\ [][NextWsAuth]_vars

\* The router.
InitRouter == BridgeIdle /\ WsIdle /\ RouterInit /\ PortIdle
NextRouter == RouterNext
SpecRouter == InitRouter /\ [][NextRouter]_vars

\* The runtime port transport.
InitPort == BridgeIdle /\ WsIdle /\ RouterIdle /\ PortInit
NextPort == PortNext
SpecPort == InitPort /\ [][NextPort]_vars

\* The runtime port transport: the set of the ports it tracks.
InitPortSet == BridgeIdle /\ WsIdle /\ RouterIdle /\ PortInit
NextPortSet == PortSetNext
SpecPortSet == InitPortSet /\ [][NextPortSet]_vars

\* The WebSocket client transport with the progress its environment gives:
\* a socket that is not established yet opens or fails, a timer that was armed fires,
\* and the bridge answers an auth message for as long as the socket is open.
\* The calls of the caller and the closing of an open socket are not forced.
WsFairness ==
    /\ \A k \in SocketIds :
            WF_vars(~transport.sockets[k].established
                        /\ (SocketOpens(k) \/ SocketCloses(k, TRUE)))
    /\ \A k \in SocketIds :
            WF_vars(\E type \in {"auth_success", "auth_error"} : AuthReply(k, type))
    /\ WF_vars(ReconnectTimerFires)
    /\ \A id \in ClientRequestIds : WF_vars(RequestTimeout(id))
SpecWsFair == SpecWs /\ WsFairness
(***************************************************************************)
(* Bridge server: properties                                               *)
(***************************************************************************)

\* The last handler run was the message handler, on a parsed JSON object.
HandledObject == lastHandled.op = "message" /\ lastHandled.msg.json = "object"

\* The last message was neither a ping nor an auth message.
HandledOther ==
    /\ HandledObject
    /\ lastHandled.msg.type # "ping"
    /\ lastHandled.msg.type # "auth"

\* The last handler run answered with exactly `replies`: it handed them to
\* send(), which wrote them to the socket if the socket was open when the
\* message was handled (nothing can be written to a socket the server has
\* already closed).
Replied(replies) ==
    /\ lastHandled.out.issued = replies
    /\ lastHandled.out.replies =
            IF lastHandled.before.readyState = "OPEN" THEN replies ELSE <<>>

C2_Auth ==
    (HandledObject /\ lastHandled.msg.type = "auth") =>
        IF lastHandled.msg.apiKey \in apiKeys
        THEN /\ lastHandled.out.session.authenticated
             /\ Replied(<<AuthSuccess(lastHandled.sid)>>)
             /\ lastHandled.out.closeCall = 0
             /\ lastHandled.out.session.readyState = lastHandled.before.readyState
        ELSE /\ Replied(<<AuthError("Invalid API key")>>)
             /\ lastHandled.out.closeCall = 1008
             /\ lastHandled.out.session.readyState # "OPEN"
             /\ (lastHandled.before.readyState = "OPEN"
                    => lastHandled.out.session.closeCode = 1008)
             /\ lastHandled.out.session.authenticated
                    = lastHandled.before.authenticated

C2_Witness ==
    /\ HandledObject
    /\ lastHandled.msg.type = "auth"
    /\ lastHandled.msg.apiKey \in apiKeys
    /\ ~lastHandled.before.authenticated
    /\ sessions[lastHandled.sid].authenticated
    /\ sessions[lastHandled.sid].readyState = "OPEN"
    /\ lastHandled.out.replies = <<AuthSuccess(lastHandled.sid)>>

\* The last message was one the rate limiter counts: neither ping nor auth, on
\* an authenticated session.
HandledCounted == HandledOther /\ lastHandled.before.authenticated

\* The limiter rejected the last message: a 429 error, nothing forwarded.
RateLimited ==
    /\ Replied(<<ErrorReply(429, "Rate limit exceeded", NoId)>>)
    /\ ~lastHandled.out.toolCall
    /\ lastHandled.out.upstream = "none"

\* C3: with the window starting at rateLimitResetAt - WindowMs, the k-th
\* counted message of a window that arrives within WindowMs of the window
\* start is rejected iff k > MaxRequests; a counted message that arrives after
\* WindowMs has elapsed is accepted and starts a fresh window (it is message 1
\* of a window that ends WindowMs later).
C3_RateLimit ==
    HandledCounted =>
        LET windowStart == lastHandled.before.rateLimitResetAt - WindowMs
            k == lastHandled.before.requestCount + 1
        IN  IF lastHandled.at - windowStart <= WindowMs
            THEN /\ RateLimited <=> k > MaxRequests
                 /\ k <= MaxRequests =>
                        \/ lastHandled.out.toolCall
                        \/ Replied(<<ErrorReply(400, "Unknown message type", NoId)>>)
                 /\ lastHandled.out.session.requestCount = k
                 /\ lastHandled.out.session.rateLimitResetAt
                        = lastHandled.before.rateLimitResetAt
            ELSE /\ ~RateLimited
                 /\ \/ lastHandled.out.toolCall
                    \/ Replied(<<ErrorReply(400, "Unknown message type", NoId)>>)
                 /\ lastHandled.out.session.requestCount = 1
                 /\ lastHandled.out.session.rateLimitResetAt
                        = lastHandled.at + WindowMs

\* The (MaxRequests+1)-th message of a window arrives exactly at the window's
\* end and is rejected.
C3_Witness ==
    /\ HandledCounted
    /\ lastHandled.before.requestCount = MaxRequests
    /\ lastHandled.at = lastHandled.before.rateLimitResetAt
    /\ lastHandled.before.readyState = "OPEN"
    /\ RateLimited

\* A window that had its MaxRequests messages is left behind: the next message
\* comes after the window's end and is accepted.
C3_FreshWindowReached ==
    /\ HandledCounted
    /\ lastHandled.before.requestCount >= MaxRequests
    /\ lastHandled.at > lastHandled.before.rateLimitResetAt
    /\ lastHandled.out.toolCall

\* The last message was a tool-call envelope with a request id, on an
\* authenticated session, and the rate limiter let it pass.
HandledToolCall ==
    /\ HandledCounted
    /\ isBridgeMessage(lastHandled.msg)
    /\ lastHandled.msg.id # NoId
    /\ checkRateLimit(lastHandled.before, lastHandled.at).ok

\* The last handler run answered with one result or error envelope that
\* carries the id of the request.
RepliedWithId ==
    /\ Len(lastHandled.out.issued) = 1
    /\ lastHandled.out.issued[1].kind \in {"result", "error"}
    /\ lastHandled.out.issued[1].id = lastHandled.msg.id
    /\ Replied(lastHandled.out.issued)

C15_IdleSweep ==
    [][(lastHandled'.op = "sweep" /\ now' = now) =>
        \A s \in SessionIds :
            sessions[s].inTable =>
                IF now - sessions[s].lastActivityAt > TimeoutMs
                THEN /\ ~sessions'[s].inTable
                     /\ sessions'[s].readyState # "OPEN"
                     /\ sessions[s].readyState = "OPEN" =>
                            /\ sessions'[s].readyState = "CLOSING"
                            /\ sessions'[s].closeCode = 1000
                ELSE sessions'[s] = sessions[s]]_vars

\* A sweep has just removed an idle session and closed its socket.
C15_Witness ==
    /\ lastHandled.op = "sweep"
    /\ sessions["s1"].created
    /\ ~sessions["s1"].inTable
    /\ sessions["s1"].readyState = "CLOSING"
    /\ sessions["s1"].closeCode = 1000
    /\ now - sessions["s1"].lastActivityAt > TimeoutMs

\* A sweep has left alone a session that was idle for exactly TimeoutMs.
C15_ThresholdReached ==
    /\ lastHandled.op = "sweep"
    /\ sessions["s1"].inTable
    /\ lastHandled.at = now
    /\ sessions["s1"].readyState = "OPEN"
    /\ now - sessions["s1"].lastActivityAt = TimeoutMs

\* C16: the authenticated flag of a session is monotonic: no step (ping,
\* valid or invalid auth, malformed JSON, tool call, rate-limited message,
\* sweep, close) resets a flag that is true.
C16_AuthMonotonic ==
    [][\A s \in SessionIds :
            sessions[s].authenticated => sessions'[s].authenticated]_vars

\* An authenticated session sent an auth message with a bad key: the socket
\* is being closed and the flag is still true.
C16_Witness ==
    /\ HandledObject
    /\ lastHandled.msg.type = "auth"
    /\ lastHandled.msg.apiKey \notin apiKeys
    /\ lastHandled.before.authenticated
    /\ lastHandled.out.closeCall = 1008
    /\ sessions[lastHandled.sid].authenticated

\* C24: the handling of a session's messages is sequential: the handling of a
\* message starts only when the handling of the session's earlier messages,
\* the awaited upstream tool call and its reply included, has finished.
C24_SequentialPerSession ==
    [][\A s \in SessionIds, m \in Payloads :
            HandleMessage(s, m) => inflight[s] = <<>>]_vars

\* C25: the message handler never raises: whatever the payload, valid JSON
\* that is not an object included, handleMessage completes normally, and a
\* payload that is not a JSON object is answered with an error reply.
C25_HandlerNeverRaises ==
    lastHandled.op = "message" =>
        /\ ~lastHandled.out.threw
        /\ lastHandled.msg.json # "object" =>
                /\ Len(lastHandled.out.issued) = 1
                /\ lastHandled.out.issued[1].kind = "error"

\* C26: an error reply carries the id of the request it rejects: when a
\* message with id X is rejected by the rate limiter or as an unknown message
\* type, the error reply has id X; the reply has no id only when the message
\* had none.
C26_ErrorReplyId ==
    (/\ HandledCounted
     /\ Len(lastHandled.out.issued) = 1
     /\ lastHandled.out.issued[1].kind = "error"
     /\ lastHandled.out.issued[1].code \in {400, 429}) =>
        lastHandled.out.issued[1].id = lastHandled.msg.id

\* C30: a ping gets a pong on any session, authenticated or not and whatever
\* the state of its rate-limit window; close() is not called, and of the
\* session only lastActivityAt changes: authenticated, requestCount,
\* rateLimitResetAt and the socket stay as they were.
C30_Ping ==
    (HandledObject /\ lastHandled.msg.type = "ping") =>
        /\ Replied(<<Pong>>)
        /\ lastHandled.out.closeCall = 0
        /\ ~lastHandled.out.toolCall
        /\ lastHandled.out.session =
                [lastHandled.before EXCEPT !.lastActivityAt = lastHandled.at]

\* A ping was answered on an authenticated session that had used up its
\* rate-limit window, at a time later than the session's last activity.
C30_Witness ==
    /\ HandledObject
    /\ lastHandled.msg.type = "ping"
    /\ lastHandled.before.authenticated
    /\ lastHandled.before.requestCount > MaxRequests
    /\ lastHandled.at <= lastHandled.before.rateLimitResetAt
    /\ lastHandled.at > lastHandled.before.lastActivityAt
    /\ lastHandled.out.replies = <<Pong>>
    /\ sessions[lastHandled.sid].lastActivityAt = lastHandled.at

\* A ping was answered on a session that never authenticated.
C30_Unauthenticated ==
    /\ HandledObject
    /\ lastHandled.msg.type = "ping"
    /\ ~lastHandled.before.authenticated
    /\ lastHandled.out.replies = <<Pong>>
    /\ sessions[lastHandled.sid].readyState = "OPEN"

\* C31: a payload that fails to parse is answered with the 'Invalid JSON
\* message' error; of the session only lastActivityAt changes (authenticated,
\* requestCount, rateLimitResetAt and the socket stay as they were), close() is
\* not called, also on an unauthenticated session, and nothing is forwarded.
C31_MalformedJson ==
    (lastHandled.op = "message" /\ lastHandled.msg.json = "malformed") =>
        /\ Replied(<<ErrorReply(400, "Invalid JSON message", NoId)>>)
        /\ lastHandled.out.closeCall = 0
        /\ ~lastHandled.out.toolCall
        /\ lastHandled.out.upstream = "none"
        /\ ~lastHandled.out.threw
        /\ lastHandled.out.session =
                [lastHandled.before EXCEPT !.lastActivityAt = lastHandled.at]

\* A malformed payload was answered on an open session that never
\* authenticated, later than the session's last activity.
C31_Witness ==
    /\ lastHandled.op = "message"
    /\ lastHandled.msg.json = "malformed"
    /\ ~lastHandled.before.authenticated
    /\ lastHandled.before.readyState = "OPEN"
    /\ lastHandled.at > lastHandled.before.lastActivityAt
    /\ lastHandled.out.replies = <<ErrorReply(400, "Invalid JSON message", NoId)>>
    /\ sessions[lastHandled.sid].readyState = "OPEN"

\* C32: a rejection by the rate limiter is not fatal: the message gets an
\* error reply with code 429 and is not forwarded, close() is not called, the
\* socket and the authenticated flag stay as they were (authenticated), and a
\* message that arrives after the end of the window is not rejected by the
\* limiter, however many messages the session had sent before.
C32_RateLimitNonFatal ==
    /\ (/\ HandledCounted
        /\ Len(lastHandled.out.issued) = 1
        /\ lastHandled.out.issued[1].code = 429) =>
            /\ RateLimited
            /\ lastHandled.out.closeCall = 0
            /\ lastHandled.out.session.readyState = lastHandled.before.readyState
            /\ lastHandled.out.session.closeCode = lastHandled.before.closeCode
            /\ lastHandled.out.session.authenticated
            /\ lastHandled.out.session.inTable = lastHandled.before.inTable
    /\ (HandledCounted /\ lastHandled.at > lastHandled.before.rateLimitResetAt) =>
            /\ ~RateLimited
            /\ lastHandled.out.issued # <<ErrorReply(429, "Rate limit exceeded", NoId)>>

\* A session whose last message of the window had been rejected by the limiter
\* sends a tool call after the end of the window, on its open socket, and the
\* call is forwarded.
C32_Witness ==
    /\ HandledCounted
    /\ lastHandled.before.requestCount > MaxRequests
    /\ lastHandled.at > lastHandled.before.rateLimitResetAt
    /\ lastHandled.before.readyState = "OPEN"
    /\ lastHandled.out.toolCall
    /\ lastHandled.out.session.requestCount = 1

\* C40: once the server has force-closed the socket of a session (close(1008)
\* after an invalid API key or after a message of an unauthenticated session),
\* no message still delivered on that session sets its authenticated flag or
\* is forwarded to the upstream client.
C40_ForceClosedStaysOut ==
    (/\ lastHandled.op = "message"
     /\ lastHandled.before.readyState = "CLOSING"
     /\ lastHandled.before.closeCode = 1008) =>
        /\ ~lastHandled.before.authenticated => ~lastHandled.out.session.authenticated
        /\ ~lastHandled.out.toolCall
        /\ lastHandled.out.upstream = "none"

(***************************************************************************)
(* Bridge server, start() to stop(): properties                            *)
(***************************************************************************)

\* The steps of stop(), in the order of the claim.
StopOrder ==
    <<"clearInterval", "ws.close", "sessions.clear", "wss.close", "httpServer.close",
      "mcpClient.disconnect">>

\* C21: stop() performs its steps in this order: it stops the sweep, calls
\* close(1000) on the socket of every session of the table, clears the table,
\* closes the accept listener and only then disconnects the upstream client;
\* from the moment stop() has begun the sweep is off, the listener takes no
\* upgrade request and no session is added to the table.
C21_StopOrder ==
    [][/\ server'.log = SubSeq(StopOrder, 1, Len(server'.log))
       /\ (server.phase = "running" /\ server'.phase # "running") =>
            /\ server'.closedOnStop = {s \in SessionIds : sessions[s].inTable}
            /\ \A s \in server'.closedOnStop :
                    /\ sessions'[s].readyState # "OPEN"
                    /\ sessions[s].readyState = "OPEN" => sessions'[s].closeCode = 1000
       /\ server'.phase # "running" =>
            /\ ~server'.cleanupInterval
            /\ server'.wss = "closed"
            /\ \A s \in SessionIds : ~sessions'[s].inTable
       /\ server.phase # "running" =>
            \A s \in SessionIds : sessions'[s].created = sessions[s].created
       /\ mcpConnected' # mcpConnected =>
            /\ server.phase = "mcpClient.disconnect"
            /\ server.httpServer = "closed"]_vars

\* stop() has returned: it found a session in the table, closed its socket
\* with code 1000, went through all its steps and disconnected the upstream
\* client.
C21_Witness ==
    /\ server.phase = "stopped"
    /\ server.log = StopOrder
    /\ server.closedOnStop = {"s1"}
    /\ sessions["s1"].closeCode = 1000
    /\ sessions["s1"].readyState = "CLOSED"
    /\ ~mcpConnected

\* An upgrade request declares an origin when it has a non-empty Origin header.
DeclaresOrigin(origin) == origin \notin {"undefined", ""}

\* C22: the origin check. An upgrade request that declares no origin is
\* rejected, also when the allow-list holds the wildcard; one that declares an
\* origin is accepted exactly when the allow-list holds the wildcard or that
\* very origin; a rejected request gets no session.
C22_OriginCheck ==
    lastHandled.op \in {"connection", "rejected"} =>
        /\ (lastHandled.op = "connection") <=>
                /\ DeclaresOrigin(lastHandled.origin)
                /\ \/ "*" \in server.allowedOrigins
                   \/ lastHandled.origin \in server.allowedOrigins
        /\ lastHandled.op = "rejected" =>
                /\ ~sessions[lastHandled.sid].created
                /\ ~sessions[lastHandled.sid].inTable
        /\ lastHandled.op = "connection" => sessions[lastHandled.sid].inTable

\* A request without an Origin header was rejected by a server whose
\* allow-list holds the wildcard.
C22_Witness ==
    /\ lastHandled.op = "rejected"
    /\ lastHandled.origin = "undefined"
    /\ "*" \in server.allowedOrigins
    /\ ~sessions["s1"].created

\* C36: once McpClientManager.disconnect() has returned, isConnected() is
\* false and callTool rejects every message with 'MCP client not connected',
\* also when client.close() threw and disconnect() swallowed the error.
C36_DisconnectDisconnects ==
    server.phase = "stopped" =>
        /\ ~mcpConnected
        /\ \A m \in Payloads : callToolRejects(m) = "MCP client not connected"

(***************************************************************************)
(* WebSocket client transport: properties                                  *)
(***************************************************************************)

\* C4: the reconnection budget. The reconnect attempts scheduled since the
\* transport was last connected (or was constructed) never exceed
\* maxReconnectAttempts, whether the attempts fail because the socket never
\* opens or because the bridge rejects the authentication and closes the
\* socket: once the budget is used the transport stays disconnected.
C4_ReconnectBudget ==
    transport.scheduledSinceConnected <= transport.maxReconnectAttempts

\* C5: connect() called in the connected or the connecting state changes
\* nothing: no socket is created and no field of the transport changes; so two
\* calls issued back to back create one socket.
C5_ConnectIdempotent ==
    [][(lastEvent'.op = "connect" /\ transport.state \in {"connected", "connecting"})
            => transport' = transport]_vars

\* The second of two back to back connect() calls found the first socket still
\* connecting, and there is one socket.
C5_Witness ==
    /\ lastEvent.op = "connect"
    /\ lastEvent.stateBefore = "connecting"
    /\ transport.created = 1
    /\ transport.sockets[1].readyState = "CONNECTING"
    /\ transport.ws = 1

\* C6: the reconnect backoff. When a socket close schedules a reconnect
\* attempt after N attempts made since the transport was last connected, the
\* delay of the timer is min(1000 * 2^N, 30000).
C6_Backoff ==
    (lastEvent.op = "close" /\ transport.state = "reconnecting") =>
        transport.scheduledDelay =
            Min(InitialReconnectDelay * 2 ^ transport.attemptsSinceConnected,
                MaxReconnectDelay)

\* C7: right after disconnect(), every request that was pending at the call is
\* rejected with 'Connection closed', the pending-request table is empty,
\* authenticated is false and the state is disconnected.
C7_Disconnect ==
    lastEvent.op = "disconnect" =>
        /\ \A i \in lastEvent.pendingBefore :
                transport.settled[i] = "rejected: Connection closed"
        /\ transport.pendingRequests = {}
        /\ ~transport.authenticated
        /\ transport.state = "disconnected"

C7_Witness ==
    /\ lastEvent.op = "disconnect"
    /\ lastEvent.pendingBefore = ClientRequestIds
    /\ lastEvent.stateBefore = "connected"
    /\ \A i \in ClientRequestIds : transport.settled[i] = "rejected: Connection closed"

\* C17: a tools/call request that arrives from the bridge on the socket of the
\* WebSocket transport is handed to Router.handle, and the result is written
\* back to the socket.
C17_RequestRouted ==
    lastEvent.op = "request" =>
        /\ lastEvent.routed
        /\ lastEvent.sent # <<>>

\* C18: when the bridge rejects the API key, the connect() operation is
\* rejected with an error carrying the text the bridge put in its auth_error
\* reply.
C18_AuthErrorMessage ==
    \A k \in SocketIds :
        (/\ transport.sockets[k].promise = "rejected"
         /\ transport.sockets[k].reason # <<>>
         /\ transport.sockets[k].reason[1] = "Authentication failed: ") =>
            transport.sockets[k].reason
                = <<"Authentication failed: ", BridgeAuthReply("auth_error").text>>

\* The ways the caller of sendMessage is settled.
SettledOutcomes ==
    {"resolved", "rejected: error", "rejected: Request timeout",
     "rejected: Connection closed"}

\* C19: an entry of the pending-request table made by sendMessage is removed
\* once and its caller is settled once, by the first of a matching response,
\* the timeout and disconnect(): an id is in the table exactly while its caller
\* is unsettled, the step that removes it settles the caller (disconnect() and
\* nothing else with 'Connection closed'), and once the caller is settled
\* neither a response nor the timer changes the outcome or puts the entry back.
C19_PendingSettledOnce ==
    [][\A i \in ClientRequestIds :
        /\ (i \in transport'.pendingRequests) <=> (transport'.settled[i] = "pending")
        /\ (i \in transport.pendingRequests /\ i \notin transport'.pendingRequests) =>
                /\ transport'.settled[i] \in SettledOutcomes
                /\ (transport'.settled[i] = "rejected: Connection closed")
                        <=> (lastEvent'.op = "disconnect")
        /\ transport.settled[i] \in SettledOutcomes =>
                /\ transport'.settled[i] = transport.settled[i]
                /\ i \notin transport'.pendingRequests]_vars

\* One request was settled by its response, the other by its timeout, and the
\* table is empty while the transport is still connected.
C19_Witness ==
    /\ transport.settled["q1"] = "resolved"
    /\ transport.settled["q2"] = "rejected: Request timeout"
    /\ transport.pendingRequests = {}
    /\ transport.state = "connected"

\* C20: the operation returned by a connect() call that created a socket is
\* eventually resolved or rejected, also when the socket is closed before it
\* opens or is closed during the authentication without an auth reply.
C20_ConnectSettles ==
    \A k \in SocketIds :
        (transport.sockets[k].promise = "pending")
            ~> (transport.sockets[k].promise \in {"resolved", "rejected"})

\* C23: after disconnect() has returned, and until the caller calls connect()
\* again, no socket is created and the state stays disconnected, also when
\* disconnect() was called in the reconnecting state with a retry timer
\* already scheduled.
C23_DisconnectIsFinal ==
    [][(lastEvent.op = "disconnect" /\ lastEvent'.op # "connect") =>
            /\ transport'.created = transport.created
            /\ transport'.state = "disconnected"]_vars

\* C27: with an API key configured, the transport is in the connected state
\* only with authenticated set and the heartbeat running, and it becomes
\* authenticated or connected only by an auth_success message received on its
\* current socket, which is open; an auth_error does not bring it there.
C27_ConnectedMeansAuthenticated ==
    [][transport.apiKey =>
        /\ transport'.state = "connected" =>
                transport'.authenticated /\ transport'.heartbeatInterval
        /\ (\/ transport'.authenticated /\ ~transport.authenticated
            \/ transport'.state = "connected" /\ transport.state # "connected") =>
                \E k \in SocketIds :
                    /\ k = transport.ws
                    /\ transport.sockets[k].readyState = "OPEN"
                    /\ AuthReply(k, "auth_success")]_vars

\* C28: responses are matched by id alone. Whatever requests are outstanding,
\* a response whose id is in the pending-request table settles that request,
\* resolving it or, if it carries an error, rejecting it, removes that entry
\* and leaves every other entry and every other field as it was; a message
\* with no id or with an id that is not in the table, a request of the bridge
\* and a pong change nothing.
C28_MatchedById ==
    /\ \A id \in ResponseIds, e \in BOOLEAN :
            clientHandleMessage(transport, "absent", id, e) =
                IF id \in transport.pendingRequests
                THEN [transport EXCEPT
                        !.pendingRequests = @ \ {id},
                        !.settled[id] = IF e THEN "rejected: error" ELSE "resolved"]
                ELSE transport
    /\ \A id \in ResponseIds :
            clientHandleMessage(transport, "pong", id, FALSE) = transport
    /\ \A id \in BridgeRequestIds :
            handleRequest(transport, id).transport = transport

\* Two requests were outstanding; one got its response, with an error, while
\* the other is still in the table.
C28_Witness ==
    /\ transport.settled["q2"] = "rejected: error"
    /\ transport.settled["q1"] = "pending"
    /\ transport.pendingRequests = {"q1"}
    /\ transport.state = "connected"

\* C29: the close of a socket that is not the doing of disconnect() leaves the
\* pending-request table as it is and rejects no outstanding request; without
\* disconnect(), an outstanding request is settled only by its own timeout or
\* by a matching response.
C29_CloseKeepsPending ==
    [][/\ lastEvent'.op = "close" =>
            /\ transport'.pendingRequests = transport.pendingRequests
            /\ transport'.settled = transport.settled
       /\ lastEvent'.op # "disconnect" =>
            \A i \in transport.pendingRequests :
                transport'.settled[i] \in
                    {"pending", "resolved", "rejected: error", "rejected: Request timeout"}]_vars

\* The socket of a connected transport was closed while a request was
\* outstanding: the request is still in the table.
C29_Witness ==
    /\ lastEvent.op = "close"
    /\ transport.pendingRequests = {"q1"}
    /\ transport.settled["q1"] = "pending"
    /\ ~transport.authenticated
    /\ transport.state \in {"reconnecting", "disconnected"}

\* C39: the close or error event of a socket that is no longer the current one
\* (the instance has called disconnect() and then connect(), so that this.ws is
\* a newer socket) leaves the connection alone: it does not clear
\* authenticated, does not stop the heartbeat, schedules no reconnect, and does
\* not move the state away from connecting/connected.
C39_SupersededSocketIsInert ==
    [][\A k \in SocketIds : \A failed \in BOOLEAN :
        (/\ SocketCloses(k, failed)
         /\ transport.ws # 0
         /\ transport.ws # k
         /\ transport.state \in {"connecting", "connected"}) =>
            /\ transport'.state = transport.state
            /\ transport'.authenticated = transport.authenticated
            /\ transport'.heartbeatInterval = transport.heartbeatInterval
            /\ transport'.reconnectTimers = transport.reconnectTimers
            /\ transport'.reconnectAttempts = transport.reconnectAttempts]_vars

(***************************************************************************)
(* Runtime port transport: properties                                      *)
(***************************************************************************)

\* C33: in the service worker, every message received on an accepted port
\* produces exactly one reply posted on that port: the result of Router.handle,
\* or, when handle raised, the error payload with code -1 together with one
\* call of the error callback; and the listener raises nothing.
C33_OneReplyPerMessage ==
    (lastPort.op = "handled" /\ lastPort.side = "worker") =>
        LET out == handle(PortRouter, lastPort.payload.message, NoContext) IN
        /\ Len(lastPort.did.posted) = 1
        /\ ~lastPort.did.raised
        /\ lastPort.did.handleThrew =>
                /\ lastPort.did.posted = <<ErrorPayload(out.value)>>
                /\ lastPort.did.posted[1].code = -1
                /\ lastPort.did.onError = 1
        /\ ~lastPort.did.handleThrew =>
                /\ lastPort.did.posted = <<out.value>>
                /\ lastPort.did.onError = 0

\* The ports the acceptor of listen() was offered under the configured name.
Accepted(p) == runtime[p].offered /\ runtime[p].name = portTransport.portName

\* C34: the tracked set is exactly the set of the accepted ports of the
\* configured name that have not disconnected; a port of another name is
\* neither tracked nor given a listener; disconnect() disconnects every port
\* that was tracked and leaves the set empty.
C34_TrackedSet ==
    /\ portTransport.ports = {p \in PortIds : Accepted(p) /\ runtime[p].connected}
    /\ \A p \in PortIds :
            (runtime[p].opened /\ runtime[p].name # portTransport.portName) =>
                /\ p \notin portTransport.ports
                /\ runtime[p].listeners["worker"] = 0
                /\ runtime[p].deleters = 0
                /\ runtime[p].handling["worker"] = <<>>
    /\ lastPort.op = "disconnect" =>
            /\ portTransport.ports = {}
            /\ \A p \in lastPort.tracked : ~runtime[p].connected

\* disconnect() ran with one port tracked, after another accepted port had
\* been disconnected by its peer.
C34_Witness ==
    /\ lastPort.op = "disconnect"
    /\ lastPort.tracked # {}
    /\ \E p \in PortIds : Accepted(p) /\ p \notin lastPort.tracked
    /\ portTransport.ports = {}

\* A port of another name is open and has received a message while the port
\* of the configured name is tracked.
C34_OtherNameReached ==
    \E p, q \in PortIds :
        /\ runtime[p].name = "other-channel"
        /\ runtime[p].offered
        /\ runtime[p].connected
        /\ runtime[p].crossed > 0
        /\ portTransport.ports = {q}

\* C38: on a port obtained from connect(), a reply of the service worker is
\* not treated as a request by the page's transport: no listener of the page
\* hands it to Router.handle, and for one request of the caller no more than
\* the request and its reply cross the port.
C38_ReplyIsNotARequest ==
    \A p \in PortIds :
        runtime[p].viaTransport =>
            /\ runtime[p].handling["page"] = <<>>
            /\ runtime[p].crossed <= 2 * runtime[p].sent

(***************************************************************************)
(* Router: properties                                                      *)
(***************************************************************************)

\* The last call was handle() with a tools/call request that carries params.
HandledToolsCall ==
    /\ lastCall.op = "handle"
    /\ lastCall.message.json = "object"
    /\ lastCall.message.method = "tools/call"
    /\ lastCall.message.params = "object"

\* C8: handle() with a tools/call request naming a tool that has no
\* registered handler returns (its promise resolves) a result with
\* isError: true.
C8_UnknownToolIsError ==
    (HandledToolsCall /\ lastCall.message.name \notin DOMAIN router.handlers) =>
        /\ lastCall.out.completion = "resolved"
        /\ lastCall.out.value.isError = "true"

\* C9: handle() never raises: for every input message, null and non-objects
\* included, its promise resolves with a response or an error object.
C9_HandleNeverRaises ==
    lastCall.op = "handle" =>
        /\ lastCall.out.completion = "resolved"
        /\ lastCall.out.value.kind \in {"error", "tools", "result"}

\* Some tool definition's name has no entry in the handler mapping.
UncoveredDefinition(toolDefs, handlers) ==
    \E i \in 1..Len(toolDefs) : toolDefs[i] \notin DOMAIN handlers

\* C10: createRouter throws iff at least one tool definition's name has no
\* entry in the handler mapping; handlers without a definition do not matter.
C10_CreateRouter ==
    lastCall.op = "createRouter" =>
        (lastCall.out.completion = "threw"
            <=> UncoveredDefinition(lastCall.toolDefs, lastCall.handlers))

\* C11: callTool with a name that has no registered handler rejects with the
\* 'Tool not found' ToolExecutionError whose toolName is that name, and
\* invokes no handler.
C11_CallToolNotFound ==
    (lastCall.op = "callTool" /\ lastCall.name \notin DOMAIN router.handlers) =>
        /\ lastCall.out.completion = "rejected"
        /\ lastCall.out.value.kind = "ToolExecutionError"
        /\ lastCall.out.value.message = <<"Tool not found: ", lastCall.name>>
        /\ lastCall.out.value.toolName = lastCall.name
        /\ lastCall.out.invoked = ""

\* C12: the context merge is override-wins in callTool and in handle: the
\* invoked handler observes the per-call value of every key the per-call
\* context has, and the base value of every key only the base context has.
C12_ContextMerge ==
    (lastCall.op \in {"callTool", "handle"} /\ lastCall.out.invoked # "") =>
        \A k \in ContextKeys :
            /\ lastCall.context[k] # Absent =>
                    lastCall.out.observed[k] = lastCall.context[k]
            /\ lastCall.context[k] = Absent =>
                    lastCall.out.observed[k] = router.context[k]

\* handle() dispatched a tools/call with a key that both contexts have.
C12_Witness ==
    /\ HandledToolsCall
    /\ lastCall.out.invoked \in DOMAIN router.handlers
    /\ router.context["tabId"] = "B"
    /\ lastCall.context["tabId"] = "O"
    /\ lastCall.out.observed["tabId"] = "O"

\* The handler registered under `name` throws when it is called.
ThrowingHandler(name) ==
    /\ name \in DOMAIN router.handlers
    /\ router.handlers[name] = "throws"

\* C13: when a registered handler throws, handle() resolves with a ToolResult
\* that has isError true and a text naming the tool and the error, and
\* callTool() rejects with a ToolExecutionError carrying the tool name and the
\* original failure as its cause; the raw failure escapes on neither path.
C13_HandlerFailure ==
    /\ (HandledToolsCall /\ ThrowingHandler(lastCall.message.name)) =>
            /\ lastCall.out.completion = "resolved"
            /\ lastCall.out.value.kind = "result"
            /\ lastCall.out.value.isError = "true"
            /\ lastCall.out.value.content =
                    <<"Error executing tool ", lastCall.message.name, ": ", "boom">>
    /\ (lastCall.op = "callTool" /\ ThrowingHandler(lastCall.name)) =>
            /\ lastCall.out.completion = "rejected"
            /\ lastCall.out.value.kind = "ToolExecutionError"
            /\ lastCall.out.value.toolName = lastCall.name
            /\ lastCall.out.value.cause = <<"boom">>
            /\ lastCall.out.value.message =
                    <<"Error executing tool ", lastCall.name, ": ", "boom">>

\* callTool() ran a handler that threw.
C13_Witness ==
    /\ lastCall.op = "callTool"
    /\ ThrowingHandler(lastCall.name)
    /\ lastCall.out.invoked = lastCall.name
    /\ lastCall.out.completion = "rejected"

\* The names of a toolDefs array are pairwise different.
UniqueNames(toolDefs) ==
    \A i, j \in 1..Len(toolDefs) : toolDefs[i] = toolDefs[j] => i = j

\* C35: tool names are unique within a constructed router: getToolDefinitions
\* and the tools/list response never hold two entries with the same name.
C35_UniqueToolNames ==
    /\ router.constructed => UniqueNames(router.toolDefs)
    /\ (lastCall.op = "handle" /\ lastCall.out.value.kind = "tools") =>
            UniqueNames(lastCall.out.value.tools)

\* The names getToolDefinitions / tools/list return.
ListedNames(r) == {r.toolDefs[i] : i \in 1..Len(r.toolDefs)}

\* C37: the names a constructed router dispatches to a handler are the names
\* it lists: every listed name has a handler that callTool and tools/call
\* reach, and a call that invoked a handler named a listed tool.
C37_CallableIffListed ==
    /\ router.constructed =>
            \A n \in ListedNames(router) :
                /\ lookup(router.handlers, n) # "undefined"
                /\ callTool(router, n, NoContext).invoked = n
    /\ (lastCall.op \in {"callTool", "handle"} /\ lastCall.out.invoked # "") =>
            lastCall.out.invoked \in ListedNames(router)

====
